---- MODULE Spec2Model ----
(***************************************************************************)
(* plox: log lines -> cached CSV time series.                              *)
(*                                                                         *)
(* The module models src/src/process_log.rs: the DataSource helpers, the   *)
(* LineProcessor (try_match / process / write_csv), the cache-file dedup   *)
(* resolver (propagate_shared_csv_files) and process_inputs.               *)
(*                                                                         *)
(* Conventions                                                             *)
(*  - Option<T> is a sequence: None == <<>>, Some(v) == <<v>>.             *)
(*  - Text the program inspects character by character (guards, patterns,  *)
(*    field names) is a sequence of one-character strings; Str turns it    *)
(*    into a TLA+ string when the program formats it into a file name.     *)
(*  - An f64 is a fraction [n, d] (n / d, d > 0), which is exact for every  *)
(*    value the model produces; FEq compares two of them.                  *)
(*  - A timestamp is an integer number of ticks, TicksPerMs ticks to the   *)
(*    millisecond, so that sub-millisecond input precision exists.         *)
(***************************************************************************)
EXTENDS Integers, Sequences, FiniteSets, TLC

VARIABLES
    \* ---- one LineProcessor driven line by line (SpecProc) ----
    proc,        \* the LineProcessor
    fed,         \* number of log lines fed to it so far
    outcome,     \* what the last loop iteration did with its line
    \* ---- one or more runs of process_inputs (SpecDedup, SpecRun) ----
    pc,          \* position inside process_inputs
    config,      \* ResolvedGraphConfig: Seq of panels, each a Seq of ResolvedLine
    ctx,         \* SharedGraphContext: force_csv_regen, cache_dir, timestamp_format,
                 \*   panel_alignment_mode, time_range
    grouped,     \* grouped_lines still to be visited by the resolver's second loop
    canonicals,  \* the resolver's result map: cache path -> ResolvedLine
    processors,  \* input log file -> (output path -> LineProcessor)
    cursor,      \* loop position: index into all_lines, or [file, next line]
    files,       \* source files on disk: path -> [mtime, lines]
    cache,       \* cache files on disk: path -> rows written (header implied)
    hist,        \* observations of the run(s), used only to state properties
    \* ---- resolve_panels_ranges (SpecRange, SpecRun) ----
    panels,      \* per panel of config: [time_range_mode, time_range]
    align        \* locals of resolve_panels_ranges: [total, mode, error]

vars == <<proc, fed, outcome, pc, config, ctx, grouped, canonicals, processors,
          cursor, files, cache, hist, panels, align>>

procVars == <<proc, fed, outcome>>
runVars  == <<pc, config, ctx, grouped, canonicals, processors, cursor, files,
              cache, hist>>
rangeVars == <<panels, align>>

-----------------------------------------------------------------------------
(* Option, sequences, text                                                 *)

None == <<>>
Some(v) == <<v>>
IsSome(o) == o # <<>>
Unwrap(o) == o[1]

Range(s) == {s[i] : i \in 1..Len(s)}

RECURSIVE Str(_)
\* A text (sequence of characters) as one string.
Str(t) == IF t = <<>> THEN "" ELSE Head(t) \o Str(Tail(t))

RECURSIVE Flatten(_)
\* Concatenation of a sequence of sequences.
Flatten(ss) == IF ss = <<>> THEN <<>> ELSE Head(ss) \o Flatten(Tail(ss))

RECURSIVE CountChar(_, _)
CountChar(t, c) ==
    IF t = <<>> THEN 0
    ELSE (IF Head(t) = c THEN 1 ELSE 0) + CountChar(Tail(t), c)

\* Integer division rounding toward zero (Rust's `/` on integers).
TruncDiv(a, b) == IF a >= 0 THEN a \div b ELSE -((-a) \div b)

-----------------------------------------------------------------------------
(* Numbers                                                                 *)

\* f64 values are fractions n / d.
F(n, d) == [n |-> n, d |-> d]
FEq(x, y) == x.n * y.d = y.n * x.d
FMul(x, k) == [x EXCEPT !.n = @ * k]
FDiv(x, k) == [x EXCEPT !.d = @ * k]
\* Ticks per millisecond of a parsed timestamp.
TicksPerMs == 2
\* Milliseconds per day, shrunk: only the date/time split depends on it.
MsPerDay == 1

-----------------------------------------------------------------------------
(* urlencoding::encode and regex::escape, on the characters of the model   *)

Unreserved == {"a", "b", "c", "d", "e", "g", "h", "n", "o", "t", "u", "w",
               "0", "1", "2", "_", ".", "-", "~"}

PercentCode(c) ==
    CASE c = "\\" -> "%5C"
      [] c = "="  -> "%3D"
      [] c = "("  -> "%28"
      [] c = ")"  -> "%29"
      [] c = "["  -> "%5B"
      [] c = "]"  -> "%5D"
      [] c = "+"  -> "%2B"
      [] c = "?"  -> "%3F"
      [] c = ":"  -> "%3A"
      [] c = "/"  -> "%2F"
      [] OTHER    -> "%3F"

RECURSIVE urlencode(_)
\* urlencoding::encode: unreserved characters are kept, the others become %XX.
urlencode(t) ==
    IF t = <<>> THEN ""
    ELSE (IF Head(t) \in Unreserved THEN Head(t) ELSE PercentCode(Head(t)))
         \o urlencode(Tail(t))

RegexMeta == {"\\", ".", "+", "*", "?", "(", ")", "|", "[", "]", "{", "}",
              "^", "$", "#", "&", "-", "~"}

RECURSIVE regex_escape(_)
\* regex::escape: a backslash before every meta character.
regex_escape(t) ==
    IF t = <<>> THEN <<>>
    ELSE (IF Head(t) \in RegexMeta THEN <<"\\", Head(t)>> ELSE <<Head(t)>>)
         \o regex_escape(Tail(t))

RECURSIVE ParenDepthOk(_, _)
\* Parentheses of t are balanced (depth d so far never negative, 0 at the
\* end); a backslash takes the next character out of the count.
ParenDepthOk(t, d) ==
    IF t = <<>> THEN d = 0
    ELSE IF Head(t) = "\\" THEN Len(t) >= 2 /\ ParenDepthOk(Tail(Tail(t)), d)
    ELSE IF Head(t) = "(" THEN ParenDepthOk(Tail(t), d + 1)
    ELSE IF Head(t) = ")" THEN d > 0 /\ ParenDepthOk(Tail(t), d - 1)
    ELSE ParenDepthOk(Tail(t), d)

\* Regex::new(t).is_ok(), for texts over letters, digits, ".", ":" and
\* parentheses, and for the field template over such a text: such a text is
\* a regex exactly when its parentheses balance.
RegexNewOk(t) == ParenDepthOk(t, 0)

RECURSIVE CaptureGroups(_)
\* Regex::captures_len() - 1: the number of capture groups, one for each
\* parenthesis that opens a group.
CaptureGroups(t) ==
    IF t = <<>> THEN 0
    ELSE IF Head(t) = "\\" THEN (IF Len(t) >= 2 THEN CaptureGroups(Tail(Tail(t))) ELSE 0)
    ELSE (IF Head(t) = "(" THEN 1 ELSE 0) + CaptureGroups(Tail(t))

-----------------------------------------------------------------------------
(* Decimal text -> f64 (str::parse::<f64>), for texts of digits and dots   *)

DigitVal(c) ==
    CASE c = "0" -> 0 [] c = "1" -> 1 [] c = "2" -> 2 [] c = "3" -> 3
      [] c = "4" -> 4 [] c = "5" -> 5 [] c = "6" -> 6 [] c = "7" -> 7
      [] c = "8" -> 8 [] c = "9" -> 9

Digits == {"0", "1", "2", "3", "4", "5", "6", "7", "8", "9"}

RECURSIVE DigitsVal(_)
DigitsVal(t) ==
    IF t = <<>> THEN 0
    ELSE DigitsVal(SubSeq(t, 1, Len(t) - 1)) * 10 + DigitVal(t[Len(t)])

RECURSIVE Pow10(_)
Pow10(n) == IF n = 0 THEN 1 ELSE 10 * Pow10(n - 1)

\* Index of the first "." of t, or Len(t) + 1.
DotAt(t) ==
    IF \E i \in 1..Len(t) : t[i] = "."
    THEN CHOOSE i \in 1..Len(t) : t[i] = "." /\ \A j \in 1..(i - 1) : t[j] # "."
    ELSE Len(t) + 1

\* value.parse::<f64>().ok(): digits with at most one dot and at least one
\* digit parse; anything else ("1.2.3", ".", "") does not.
ParseF64(t) ==
    IF /\ Range(t) \subseteq (Digits \cup {"."})
       /\ CountChar(t, ".") <= 1
       /\ \E i \in 1..Len(t) : t[i] \in Digits
    THEN LET d    == DotAt(t)
             ip   == SubSeq(t, 1, d - 1)
             fp   == SubSeq(t, d + 1, Len(t))
         IN  Some(F(DigitsVal(ip) * Pow10(Len(fp)) + DigitsVal(fp), Pow10(Len(fp))))
    ELSE None

\* Characters outside ASCII are named by their code point: the micro sign,
\* and the capital A with circumflex that stands before it in the unit
\* literal of normalize_value (the bytes C3 82 C2 B5 73 of the source are the
\* three characters U+00C2 U+00B5 s).
MicroSign == "U+00B5"
ACircumflex == "U+00C2"

\* Converts value+unit to milliseconds.
normalize_value(value, unit) ==
    LET parsed == ParseF64(value)
        u      == Str(unit)
    IN  IF parsed = None THEN None
        ELSE LET base == Unwrap(parsed)
             IN  CASE u = "s"  -> Some(FMul(base, 1000))
                   [] u = "ms" -> Some(base)
                   [] u = "us" -> Some(FDiv(base, 1000))
                   [] u = ACircumflex \o MicroSign \o "s" -> Some(FDiv(base, 1000))
                   [] u = "ns" -> Some(FDiv(base, 1000000))
                   [] u = "microseconds" -> Some(FDiv(base, 1000))
                   [] OTHER -> Some(base)

-----------------------------------------------------------------------------
(* DataSource                                                              *)
(*   [kind |-> "FieldValue", guard, field]                                 *)
(*   [kind |-> "EventValue", guard, pattern, yvalue]                       *)
(*   [kind |-> "EventCount", guard, pattern]                               *)
(*   [kind |-> "EventDelta", guard, pattern]                               *)
(* guard is an Option of text, field and pattern are texts, yvalue is a    *)
(* whole number.                                                           *)

new_plot_field(guard, field) ==
    [kind |-> "FieldValue", guard |-> guard, field |-> field]
new_event_value(guard, pattern, yvalue) ==
    [kind |-> "EventValue", guard |-> guard, pattern |-> pattern, yvalue |-> yvalue]
new_event_count(guard, pattern) ==
    [kind |-> "EventCount", guard |-> guard, pattern |-> pattern]
new_event_delta(guard, pattern) ==
    [kind |-> "EventDelta", guard |-> guard, pattern |-> pattern]

match_token(ds) == IF ds.kind = "FieldValue" THEN ds.field ELSE ds.pattern

\* Mutant: a field regex has exactly one capture group.
validate_field_regex_one_group(ds) ==
    IF ds.kind = "FieldValue" /\ RegexNewOk(ds.field)
    THEN IF CaptureGroups(ds.field) = 1 THEN "OkTrue"
         ELSE IF CaptureGroups(ds.field) > 1 THEN "Err"
         ELSE "OkFalse"
    ELSE "OkFalse"

\* Ok(true) | Ok(false) | Err(RegexCapturesGroupsInvalidCount)
validate_field_regex(ds) ==
    IF ds.kind = "FieldValue" /\ RegexNewOk(ds.field)
    THEN IF CaptureGroups(ds.field) \in 1..2 THEN "OkTrue"
         ELSE IF CaptureGroups(ds.field) > 2 THEN "Err"
         ELSE "OkFalse"
    ELSE "OkFalse"

is_field_valid_regex(ds) == validate_field_regex(ds) = "OkTrue"

\* \b{escaped field}=([\d\.]+)(\w+)?
FieldTemplate(field) ==
    <<"\\", "b">> \o regex_escape(field)
      \o <<"=", "(", "[", "\\", "d", "\\", ".", "]", "+", ")",
           "(", "\\", "w", "+", ")", "?">>

\* The regex pattern actually used for matching events and extracting values.
regex_pattern(ds) ==
    IF ds.kind = "FieldValue"
    THEN IF is_field_valid_regex(ds) THEN ds.field ELSE FieldTemplate(ds.field)
    ELSE ds.pattern

regex_filename_tag(ds) == urlencode(regex_pattern(ds))

\* Error::RegexCapturesGroupsInvalidCount(field)
RegexCapturesGroupsInvalidCount(field) ==
    [kind |-> "RegexCapturesGroupsInvalidCount", field |-> field]

\* The Err of compile_regex as Some(error), Ok as None: the error of
\* validate_field_regex()?, then the regex::Error of Regex::new.
compile_regex_error(ds) ==
    IF validate_field_regex(ds) = "Err"
    THEN Some(RegexCapturesGroupsInvalidCount(ds.field))
    ELSE IF ~RegexNewOk(regex_pattern(ds)) THEN Some([kind |-> "Regex"])
    ELSE None

\* Ok(regex) as Some(pattern text), Err as None.
compile_regex(ds) ==
    IF compile_regex_error(ds) # None THEN None ELSE Some(regex_pattern(ds))

\* Mutant: only EventCount lines share a file.
can_csv_file_be_shared_count_only(ds) == ds.kind = "EventCount"

can_csv_file_be_shared(ds) == ds.kind \in {"EventCount", "EventDelta"}

-----------------------------------------------------------------------------
(* Log lines.                                                              *)
(* A log line is what the program can observe of it:                       *)
(*   contains : the guard texts that occur in the line                     *)
(*   ts       : Option of the timestamp (ticks) its prefix parses to       *)
(*   matches  : the regex patterns (texts) that match the remainder        *)
(*   cap1     : Option of the text of capture group 1 of a field regex     *)
(*   cap2     : Option of the text of capture group 2 (the unit)           *)

DayTicks == MsPerDay * TicksPerMs

\* ExtractedNaiveDateTime
ExtractedTime(t)     == [kind |-> "Time", t |-> t % DayTicks]
ExtractedDateTime(t) == [kind |-> "DateTime", t |-> t]

\* TimestampFormat::extract_timestamp: Ok((timestamp, remainder)) or Err.
extract_timestamp(timestamp_format, line) ==
    IF line.ts = None THEN None
    ELSE IF timestamp_format = "Time" THEN Some(ExtractedTime(Unwrap(line.ts)))
    ELSE Some(ExtractedDateTime(Unwrap(line.ts)))

\* ExtractedNaiveDateTime::date
date(ts) == IF ts.kind = "Time" THEN None ELSE Some(ts.t \div DayTicks)
\* ExtractedNaiveDateTime::time, as written by "%H:%M:%S%.3f": whole ms.
time(ts) == (ts.t % DayTicks) \div TicksPerMs

\* signed_duration_since(..).num_milliseconds(): whole ms toward zero.
signed_duration_ms(current, prev) == TruncDiv(current.t - prev.t, TicksPerMs)

-----------------------------------------------------------------------------
(* ProcessingState and LineProcessor                                       *)

ProcessingState_new == [count |-> 0, last_timestamp |-> None]

next_count(state) == [state EXCEPT !.count = @ + 1]

\* The delta returned by compute_delta.
compute_delta_diff(state, current) ==
    IF state.last_timestamp = None THEN None
    ELSE Some(signed_duration_ms(current, Unwrap(state.last_timestamp)))

\* The state left by compute_delta.
compute_delta(state, current) == [state EXCEPT !.last_timestamp = Some(current)]

\* LineProcessor::from_data_source, when compile_regex succeeds.
from_data_source(data_source, output_path, timestamp_format, input_file_name) ==
    [data_source |-> data_source,
     regex |-> Unwrap(compile_regex(data_source)),
     output_path |-> output_path,
     timestamp_format |-> timestamp_format,
     state |-> ProcessingState_new,
     records |-> <<>>,
     timestamp_extraction_failure_count |-> 0,
     input_file_name |-> input_file_name]

guard_matches(p, line) ==
    IF p.data_source.guard = None THEN TRUE
    ELSE Unwrap(p.data_source.guard) \in line.contains

\* The failure threshold of handle_timestamp_extraction_failure.
MaxTimestampFailures == 3

\* Error::TimestampExtractionFailure(input file, timestamp format, line).
TimestampExtractionFailure(file, format, line) ==
    [kind |-> "TimestampExtractionFailure", file |-> file, format |-> format,
     line |-> line]

\* Mutant: the third failure is fatal already.
handle_timestamp_extraction_failure_at_threshold(p, line) ==
    LET q == [p EXCEPT !.timestamp_extraction_failure_count = @ + 1]
    IN  [proc |-> q,
         error |-> IF q.timestamp_extraction_failure_count >= MaxTimestampFailures
                   THEN Some(TimestampExtractionFailure(q.input_file_name,
                                                        q.timestamp_format, line))
                   ELSE None]

\* LineProcessor::handle_timestamp_extraction_failure: the processor with
\* its count raised, and Err as Some(error), Ok as None.
handle_timestamp_extraction_failure(p, line) ==
    LET q == [p EXCEPT !.timestamp_extraction_failure_count = @ + 1]
    IN  [proc |-> q,
         error |-> IF q.timestamp_extraction_failure_count > MaxTimestampFailures
                   THEN Some(TimestampExtractionFailure(q.input_file_name,
                                                        q.timestamp_format, line))
                   ELSE None]

\* Mutant: the timestamp is extracted before the guard is looked at.
try_match_timestamp_first(p, line) ==
    LET ex == extract_timestamp(p.timestamp_format, line)
    IN  IF ex = None
        THEN LET h == handle_timestamp_extraction_failure(p, line)
             IN  [proc |-> h.proc, err |-> h.error # None, error |-> h.error,
                  guard_matched |-> guard_matches(p, line), captured |-> None]
        ELSE [proc |-> p, err |-> FALSE, error |-> None,
              guard_matched |-> guard_matches(p, line),
              captured |-> IF guard_matches(p, line) /\ p.regex \in line.matches
                           THEN Some([cap1 |-> line.cap1, cap2 |-> line.cap2,
                                      timestamp |-> Unwrap(ex)])
                           ELSE None]

\* try_match: [proc, err, error, guard_matched, captured], captured an Option
\* of [cap1, cap2, timestamp], error the Err value when err.
try_match(p, line) ==
    IF guard_matches(p, line)
    THEN LET ex == extract_timestamp(p.timestamp_format, line)
         IN  IF ex # None
             THEN [proc |-> p, err |-> FALSE, error |-> None, guard_matched |-> TRUE,
                   captured |-> IF p.regex \in line.matches
                                THEN Some([cap1 |-> line.cap1, cap2 |-> line.cap2,
                                           timestamp |-> Unwrap(ex)])
                                ELSE None]
             ELSE LET h == handle_timestamp_extraction_failure(p, line)
                  IN  [proc |-> h.proc, err |-> h.error # None, error |-> h.error,
                       guard_matched |-> TRUE, captured |-> None]
    ELSE [proc |-> p, err |-> FALSE, error |-> None, guard_matched |-> FALSE,
          captured |-> None]

\* Mutant: a value that does not parse is recorded as 0.
process_zero_on_bad_value(p, caps, timestamp) ==
    LET st1 == next_count(p.state)
        st2 == compute_delta(st1, timestamp)
        q   == [p EXCEPT !.state = st2]
        v   == IF p.data_source.kind = "EventValue" THEN Some(F(p.data_source.yvalue, 1))
               ELSE IF p.data_source.kind # "FieldValue" THEN Some(F(1, 1))
               ELSE normalize_value(IF caps.cap1 = None THEN <<"0">> ELSE Unwrap(caps.cap1),
                                    IF caps.cap2 = None THEN <<>> ELSE Unwrap(caps.cap2))
    IN  [q EXCEPT !.records =
            Append(@, [date |-> date(timestamp), time |-> time(timestamp),
                       value |-> IF v = None THEN F(0, 1) ELSE Unwrap(v),
                       count |-> st1.count,
                       diff |-> compute_delta_diff(st1, timestamp),
                       ts |-> timestamp])]

\* LineProcessor::process. The record's ts field is not part of LogRecord: it
\* keeps the timestamp the record was made from, to state properties.
process(p, caps, timestamp) ==
    LET st1   == next_count(p.state)
        count == st1.count
        diff  == compute_delta_diff(st1, timestamp)
        st2   == compute_delta(st1, timestamp)
        q     == [p EXCEPT !.state = st2]
        ds    == p.data_source
        rec(value) == [date |-> date(timestamp), time |-> time(timestamp),
                       value |-> value, count |-> count, diff |-> diff,
                       ts |-> timestamp]
    IN  CASE ds.kind = "EventValue" ->
               [q EXCEPT !.records = Append(@, rec(F(ds.yvalue, 1)))]
          [] ds.kind \in {"EventCount", "EventDelta"} ->
               [q EXCEPT !.records = Append(@, rec(F(1, 1)))]
          [] ds.kind = "FieldValue" ->
               LET raw_val == IF caps.cap1 = None THEN <<"0">> ELSE Unwrap(caps.cap1)
                   unit    == IF caps.cap2 = None THEN <<>> ELSE Unwrap(caps.cap2)
                   v       == normalize_value(raw_val, unit)
               IN  IF v = None THEN q
                   ELSE [q EXCEPT !.records = Append(@, rec(Unwrap(v)))]

\* One iteration of the scan loop for one processor: try_match, then process
\* on a match. [proc, err, error].
feed(p, line) ==
    LET m == try_match(p, line)
    IN  IF m.err THEN [proc |-> m.proc, err |-> TRUE, error |-> m.error]
        ELSE IF m.captured = None THEN [proc |-> m.proc, err |-> FALSE, error |-> None]
        ELSE [proc |-> process(m.proc, Unwrap(m.captured), Unwrap(m.captured).timestamp),
              err |-> FALSE, error |-> None]


-----------------------------------------------------------------------------
(* Bounds and input sets                                                   *)

\* Log lines fed to one processor.
MaxFeed == 4
\* Timestamps of log lines are 0..MaxTick ticks.
MaxTick == 2

GuardG == <<"g">>
\* A plain field / pattern name, like "duration".
TokD == <<"d">>
\* A user regex with one capture group, like "duration:([\d\.]+)".
TokRe == <<"d", "(", ".", ")">>

Formats == {"DateTime", "Time"}

\* The data sources of the single-processor specification.
ProcSources ==
    {new_plot_field(Some(GuardG), TokD),
     new_event_value(Some(GuardG), TokD, 2),
     new_event_count(None, TokD),
     new_event_delta(Some(GuardG), TokD)}

TsOptions == {None} \cup {Some(t) : t \in 0..MaxTick}

\* Capture texts: a number, and a number with several dots (matched by
\* [\d\.]+, rejected by parse).
Cap1Options == {Some(<<"2", ".", "5">>), Some(<<"1", ".", "2", ".", "3">>)}
Cap2Options == {None, Some(<<"s">>)}

\* The log lines a processor can tell apart: the lines that pass its guard
\* (the regex is applied to the remainder of a line whose timestamp parsed),
\* and, when it has a guard, one line that does not. An event pattern has no
\* capture group.
ProcLines(p) ==
    LET c == IF p.data_source.guard = None THEN {}
             ELSE {Unwrap(p.data_source.guard)}
        caps == IF p.data_source.kind = "FieldValue"
                THEN Cap1Options \X Cap2Options
                ELSE {<<None, None>>}
    IN  {[contains |-> c, ts |-> t, matches |-> {p.regex},
          cap1 |-> cc[1], cap2 |-> cc[2]] :
            t \in TsOptions \ {None}, cc \in caps}
        \cup
        {[contains |-> c, ts |-> t, matches |-> {}, cap1 |-> None, cap2 |-> None] :
            t \in TsOptions}
        \cup
        (IF p.data_source.guard = None THEN {}
         ELSE {[contains |-> {}, ts |-> None, matches |-> {},
                cap1 |-> None, cap2 |-> None]})

-----------------------------------------------------------------------------
(* SpecProc: one LineProcessor fed the lines of a file in order            *)

IdleRun ==
    /\ pc = "idle"
    /\ config = <<>>
    /\ ctx = <<>>
    /\ grouped = {}
    /\ canonicals = <<>>
    /\ processors = <<>>
    /\ cursor = 0
    /\ files = <<>>
    /\ cache = <<>>
    /\ panels = <<>>
    /\ align = <<>>

\* A guard-passing line whose timestamp prefix does not parse.
TimestampFails(p, line) ==
    /\ p.data_source.guard = None \/ Unwrap(p.data_source.guard) \in line.contains
    /\ line.ts = None

InitProc ==
    /\ proc \in {from_data_source(ds, Some("output.csv"), f, "input.log") :
                    ds \in ProcSources, f \in Formats}
    /\ fed = 0
    /\ outcome = "start"
    /\ IdleRun
    /\ hist = [failures |-> 0, line |-> None, error |-> None]

\* The body of the scan loop (process_inputs, regex_match_preview_inner):
\* try_match on the next line of the file, process on a match; an error of
\* try_match ends the scan. hist counts the lines with TimestampFails, and
\* keeps the last line when it is one and the error try_match returned.
ScanLine ==
    /\ fed < MaxFeed
    /\ outcome # "error"
    /\ \E line \in ProcLines(proc) :
          LET m == try_match(proc, line)
              r == feed(proc, line)
          IN  /\ proc' = r.proc
              /\ outcome' = IF r.err THEN "error"
                            ELSE IF ~m.guard_matched THEN "skipped"
                            ELSE IF m.captured = None
                                 THEN IF line.ts = None THEN "tsfail" ELSE "nomatch"
                            ELSE IF Len(r.proc.records) = Len(proc.records) THEN "dropped"
                            ELSE "recorded"
              /\ hist' = IF TimestampFails(proc, line)
                         THEN [failures |-> hist.failures + 1, line |-> Some(line),
                               error |-> r.error]
                         ELSE [failures |-> hist.failures, line |-> None,
                               error |-> r.error]
    /\ fed' = fed + 1
    /\ UNCHANGED <<pc, config, ctx, grouped, canonicals, processors, cursor, files,
                   cache>>
    /\ UNCHANGED rangeVars

NextProc == ScanLine

SpecProc == InitProc /\ [][NextProc]_vars

-----------------------------------------------------------------------------
(* Claims about one LineProcessor                                          *)

\* C1: the records of one LineProcessor carry count 1, 2, 3, ...: record i
\* has count i, for every DataSource kind.
C1_CountsConsecutive ==
    \A i \in 1..Len(proc.records) : proc.records[i].count = i

\* C2: the first record has no delta, and every later record's delta is the
\* signed difference in whole milliseconds between its own timestamp and the
\* timestamp of the record before it in the list.
C2_DeltaFromPreviousRecord ==
    \A i \in 1..Len(proc.records) :
        proc.records[i].diff =
            IF i = 1 THEN None
            ELSE Some(signed_duration_ms(proc.records[i].ts, proc.records[i - 1].ts))

C11_WitnessCumulative ==
    /\ outcome = "tsfail"
    /\ hist.failures = 2
    /\ Len(proc.records) = 1
    /\ fed = 3


-----------------------------------------------------------------------------
(* Paths, source files, cache directories                                  *)
(* A source path is [dir |-> Seq of component names, name |-> file name].  *)

RECURSIVE JoinDir(_)
\* "/a/b" for <<"a", "b">>.
JoinDir(d) == IF d = <<>> THEN "" ELSE "/" \o Head(d) \o JoinDir(Tail(d))

PathStr(src) == JoinDir(src.dir) \o "/" \o src.name

\* A map as a function; insert overwrites, or_insert keeps an existing entry.
EmptyMap == <<>>
MapInsert(m, k, v) == (k :> v) @@ m
\* Mutant: a file that is not the canonical's is never registered.
MapOrInsert_skip(m, k, v) == m
MapOrInsert(m, k, v) == m @@ (k :> v)
MapRemove(m, k) == [x \in DOMAIN m \ {k} |-> m[x]]

\* Ticks of a file modification time per second (mtime has sub-second
\* precision; the file name keeps whole seconds).
MtimeTicksPerSec == 2

\* SharedGraphContext::get_cache_dir: Some(dir) or None when the log file
\* cannot be canonicalized (it does not exist).
get_cache_dir(c, fs, src) ==
    IF PathStr(src) \notin DOMAIN fs THEN None
    ELSE IF c.cache_dir # None
         THEN Some(JoinDir(Unwrap(c.cache_dir)) \o JoinDir(src.dir))
         ELSE Some(JoinDir(src.dir) \o "/.plox")

-----------------------------------------------------------------------------
(* ResolvedLine and the cache-file name                                    *)

ResolvedLine_from_explicit_name(ds, src) ==
    [data_source |-> ds, source |-> src, shared_csv_file |-> None,
     data_points_count |-> 0, time_range |-> None]

set_shared_csv_filename(line, path) == [line EXCEPT !.shared_csv_file = Some(path)]
expect_shared_csv_filename(line) == Unwrap(line.shared_csv_file)

\* Mutant: the EventValue file name leaves out the yvalue.
get_csv_filename_no_yvalue(fs, line) ==
    LET ds   == line.data_source
        tag  == regex_filename_tag(ds)
        core == CASE ds.kind = "EventValue" -> "value_" \o tag
                  [] ds.kind = "EventCount" -> "count_" \o tag
                  [] ds.kind = "EventDelta" -> "delta_" \o tag
                  [] ds.kind = "FieldValue" -> tag
        log_name == line.source.name
        ts   == IF PathStr(line.source) \in DOMAIN fs
                THEN ToString(fs[PathStr(line.source)].mtime \div MtimeTicksPerSec)
                ELSE "nots"
    IN  IF ds.guard # None
        THEN log_name \o "_" \o ts \o "__" \o Str(Unwrap(ds.guard)) \o "__" \o core \o ".csv"
        ELSE log_name \o "_" \o ts \o "__" \o core \o ".csv"

\* ResolvedLine::get_csv_filename
get_csv_filename(fs, line) ==
    LET ds   == line.data_source
        tag  == regex_filename_tag(ds)
        core == CASE ds.kind = "EventValue" ->
                       "value_" \o ToString(ds.yvalue) \o "_" \o tag
                  [] ds.kind = "EventCount" -> "count_" \o tag
                  [] ds.kind = "EventDelta" -> "delta_" \o tag
                  [] ds.kind = "FieldValue" -> tag
        log_name == line.source.name
        ts   == IF PathStr(line.source) \in DOMAIN fs
                THEN ToString(fs[PathStr(line.source)].mtime \div MtimeTicksPerSec)
                ELSE "nots"
    IN  IF ds.guard # None
        THEN log_name \o "_" \o ts \o "__" \o Str(Unwrap(ds.guard)) \o "__" \o core \o ".csv"
        ELSE log_name \o "_" \o ts \o "__" \o core \o ".csv"

-----------------------------------------------------------------------------
(* propagate_shared_csv_files                                              *)

\* Positions <<panel, line>> of the configuration in all_lines order.
AllPositions(cfg) ==
    Flatten([p \in 1..Len(cfg) |-> [l \in 1..Len(cfg[p]) |-> <<p, l>>]])

all_lines(cfg) == [i \in 1..Len(AllPositions(cfg)) |->
                      cfg[AllPositions(cfg)[i][1]][AllPositions(cfg)[i][2]]]

LineAt(cfg, pos) == cfg[pos[1]][pos[2]]

\* MatchKey = (guard, match token, input file)
MatchKey(line) ==
    <<line.data_source.guard, match_token(line.data_source), line.source>>

RECURSIVE LinesOfKey(_, _, _)
\* The positions of ps whose line has key k, in order.
LinesOfKey(cfg, ps, k) ==
    IF ps = <<>> THEN <<>>
    ELSE (IF MatchKey(LineAt(cfg, Head(ps))) = k THEN <<Head(ps)>> ELSE <<>>)
         \o LinesOfKey(cfg, Tail(ps), k)

\* grouped_lines[k]: the lines of key k, in the order they were pushed.
GroupMembers(cfg, k) == LinesOfKey(cfg, AllPositions(cfg), k)

GroupKeys(cfg) == {MatchKey(LineAt(cfg, pos)) : pos \in Range(AllPositions(cfg))}

\* First position of ms whose line is of the given kind, or None.
FindKind(cfg, ms, kind) ==
    IF \E i \in 1..Len(ms) : LineAt(cfg, ms[i]).data_source.kind = kind
    THEN Some(ms[CHOOSE i \in 1..Len(ms) :
                    /\ LineAt(cfg, ms[i]).data_source.kind = kind
                    /\ \A j \in 1..(i - 1) : LineAt(cfg, ms[j]).data_source.kind # kind])
    ELSE None

\* Mutant: the canonical is always the first line of the group.
Canonical_first(cfg, ms) == ms[1]

\* lines.iter().find(FieldValue).or(find(EventValue)).unwrap_or(&lines[0])
Canonical(cfg, ms) ==
    IF FindKind(cfg, ms, "FieldValue") # None THEN Unwrap(FindKind(cfg, ms, "FieldValue"))
    ELSE IF FindKind(cfg, ms, "EventValue") # None THEN Unwrap(FindKind(cfg, ms, "EventValue"))
    ELSE ms[1]

RECURSIVE SetOwnFilenames(_, _, _, _)
\* First loop over a group: every line gets its own csv path in output_dir.
SetOwnFilenames(cfg, fs, ms, output_dir) ==
    IF ms = <<>> THEN cfg
    ELSE LET pos  == Head(ms)
             path == output_dir \o "/" \o get_csv_filename(fs, LineAt(cfg, pos))
         IN  SetOwnFilenames(
                 [cfg EXCEPT ![pos[1]][pos[2]] = set_shared_csv_filename(@, path)],
                 fs, Tail(ms), output_dir)

RECURSIVE ShareOrRegister(_, _, _)
\* Last loop over a group: shareable lines take the canonical's path, the
\* others register their own file unless it is registered already.
\* st = [cfg, canonicals]
ShareOrRegister(st, ms, shared_path) ==
    IF ms = <<>> THEN st
    ELSE LET pos  == Head(ms)
             line == LineAt(st.cfg, pos)
         IN  IF can_csv_file_be_shared(line.data_source)
             THEN ShareOrRegister(
                      [st EXCEPT !.cfg[pos[1]][pos[2]] =
                                     set_shared_csv_filename(@, shared_path)],
                      Tail(ms), shared_path)
             ELSE ShareOrRegister(
                      [st EXCEPT !.canonicals =
                                     MapOrInsert(@, expect_shared_csv_filename(line), line)],
                      Tail(ms), shared_path)

\* The body of the loop over grouped_lines for the group of key k, when
\* get_cache_dir succeeds: [cfg, canonicals].
ResolveGroupResult(cfg, canon, fs, c, k) ==
    LET ms          == GroupMembers(cfg, k)
        output_dir  == Unwrap(get_cache_dir(c, fs, k[3]))
        cfg1        == SetOwnFilenames(cfg, fs, ms, output_dir)
        canonical   == LineAt(cfg1, Canonical(cfg1, ms))
        shared_path == expect_shared_csv_filename(canonical)
        canon1      == MapInsert(canon, shared_path, canonical)
    IN  ShareOrRegister([cfg |-> cfg1, canonicals |-> canon1], ms, shared_path)

\* propagate_shared_csv_files, first loop: group all lines by MatchKey.
GroupLines ==
    /\ pc = "start"
    /\ grouped' = GroupKeys(config)
    /\ canonicals' = EmptyMap
    /\ pc' = IF GroupKeys(config) = {} THEN "resolved" ELSE "grouping"
    /\ UNCHANGED <<config, ctx, processors, cursor, files, cache, hist>>
    /\ UNCHANGED procVars
    /\ UNCHANGED rangeVars

\* propagate_shared_csv_files, one iteration of the loop over grouped_lines
\* (a HashMap: the groups come in any order).
ResolveGroup ==
    /\ pc = "grouping"
    /\ \E k \in grouped :
          IF get_cache_dir(ctx, files, k[3]) = None
          THEN /\ pc' = "error"
               /\ UNCHANGED <<config, canonicals, grouped>>
          ELSE LET r == ResolveGroupResult(config, canonicals, files, ctx, k)
               IN  /\ config' = r.cfg
                   /\ canonicals' = r.canonicals
                   /\ grouped' = grouped \ {k}
                   /\ pc' = IF grouped = {k} THEN "resolved" ELSE "grouping"
    /\ UNCHANGED <<ctx, processors, cursor, files, cache, hist>>
    /\ UNCHANGED procVars
    /\ UNCHANGED rangeVars


-----------------------------------------------------------------------------
(* process_inputs after the resolver: processors, scan, cache files        *)

\* The day written for a time-only format ("2025-01-01"), days counted from it.
PlaceholderDay == 0

\* LineProcessor::write_csv: the rows below the header date,time,value,count,delta.
write_csv(p) ==
    [i \in 1..Len(p.records) |->
        [date  |-> IF p.timestamp_format = "Time" THEN PlaceholderDay
                   ELSE Unwrap(p.records[i].date),
         time  |-> p.records[i].time,
         value |-> p.records[i].value,
         count |-> p.records[i].count,
         delta |-> IF p.records[i].diff = None THEN 0 ELSE Unwrap(p.records[i].diff)]]

\* reader.lines().map_while(Result::ok): the lines up to the first one that
\* cannot be read (an I/O error, invalid UTF-8).
ReadableUpTo(lines) ==
    IF \E i \in 1..Len(lines) : ~lines[i].readable
    THEN (CHOOSE i \in 1..Len(lines) :
             ~lines[i].readable /\ \A j \in 1..(i - 1) : lines[j].readable) - 1
    ELSE Len(lines)

NumLines == Len(AllPositions(config))

\* Mutant: a processor is made for a line even when its cache file exists.
UseCached_never(c, path) == FALSE

\* !force_csv_regen && Path::new(&csv_output_path).exists()
UseCached(c, path) == ~ctx.force_csv_regen /\ path \in DOMAIN c

\* process_inputs, one iteration of the loop over config.all_lines().
VisitLine ==
    /\ pc \in {"resolved", "lines"}
    /\ cursor < NumLines
    /\ LET line == all_lines(config)[cursor + 1]
           csv_output_path == expect_shared_csv_filename(line)
           last == cursor + 1 = NumLines
       IN  IF UseCached(cache, csv_output_path)
           THEN /\ hist' = [hist EXCEPT !.reused = @ \cup {csv_output_path}]
                /\ pc' = IF last THEN "scan" ELSE "lines"
                /\ UNCHANGED <<canonicals, processors>>
           ELSE IF csv_output_path \in DOMAIN canonicals
           THEN LET canonical_line == canonicals[csv_output_path]
                    input == PathStr(canonical_line.source)
                IN  /\ canonicals' = MapRemove(canonicals, csv_output_path)
                    /\ IF compile_regex(canonical_line.data_source) = None
                       THEN /\ pc' = "error"
                            /\ UNCHANGED <<processors, hist>>
                       ELSE LET processor ==
                                    from_data_source(canonical_line.data_source,
                                        Some(csv_output_path), ctx.timestamp_format, input)
                                ofFile == IF input \in DOMAIN processors
                                          THEN processors[input] ELSE EmptyMap
                            IN  /\ processors' =
                                       MapInsert(processors, input,
                                           MapOrInsert(ofFile, csv_output_path, processor))
                                /\ hist' = [hist EXCEPT
                                              !.created = Append(@, csv_output_path),
                                              !.seen = MapInsert(@, csv_output_path,
                                                          [input |-> input, lines |-> <<>>])]
                                /\ pc' = IF last THEN "scan" ELSE "lines"
           ELSE /\ pc' = IF last THEN "scan" ELSE "lines"
                /\ UNCHANGED <<canonicals, processors, hist>>
    /\ cursor' = cursor + 1
    /\ UNCHANGED <<config, ctx, grouped, files, cache>>
    /\ UNCHANGED procVars
    /\ UNCHANGED rangeVars

\* process_inputs, loop over processors: open the next log file (a HashMap:
\* the files come in any order).
OpenFile ==
    /\ pc = "scan"
    /\ \E f \in DOMAIN processors :
          /\ cursor' = [file |-> f, next |-> 1]
          /\ hist' = [hist EXCEPT !.opened = Append(@, f)]
    /\ pc' = "read"
    /\ UNCHANGED <<config, ctx, grouped, canonicals, processors, files, cache>>
    /\ UNCHANGED procVars
    /\ UNCHANGED rangeVars

\* for processor in processors.values_mut(): try_match, then process.
FeedAll(ps, line) == [path \in DOMAIN ps |-> feed(ps[path], line)]

\* Mutant: when try_match returns an error the processors of the file write
\* what they have.
ReadLine_flush_on_error ==
    /\ pc = "read"
    /\ cursor.next <= ReadableUpTo(files[cursor.file].lines)
    /\ LET f   == cursor.file
           ps  == processors[f]
           res == FeedAll(ps, files[f].lines[cursor.next])
       IN  IF \E path \in DOMAIN ps : res[path].err
           THEN /\ pc' = "error"
                /\ cache' = [path \in DOMAIN ps |-> write_csv(ps[path])] @@ cache
                /\ hist' = [hist EXCEPT !.written = @ \cup DOMAIN ps]
                /\ UNCHANGED <<processors, cursor>>
           ELSE /\ processors' = MapInsert(processors, f,
                                     [path \in DOMAIN ps |-> res[path].proc])
                /\ cursor' = [cursor EXCEPT !.next = @ + 1]
                /\ hist' = [hist EXCEPT !.seen =
                              [path \in DOMAIN @ |->
                                  IF path \in DOMAIN res
                                  THEN [@[path] EXCEPT !.lines = Append(@, cursor.next)]
                                  ELSE @[path]]]
                /\ pc' = "read"
                /\ UNCHANGED cache
    /\ UNCHANGED <<config, ctx, grouped, canonicals, files>>
    /\ UNCHANGED procVars
    /\ UNCHANGED rangeVars

\* The scan loop body: the next line of the open file goes to every
\* processor of the file; an error of try_match ends process_inputs.
ReadLine ==
    /\ pc = "read"
    /\ cursor.next <= ReadableUpTo(files[cursor.file].lines)
    /\ LET f   == cursor.file
           ps  == processors[f]
           res == FeedAll(ps, files[f].lines[cursor.next])
       IN  IF \E path \in DOMAIN ps : res[path].err
           THEN /\ pc' = "error"
                /\ UNCHANGED <<processors, cursor, hist>>
           ELSE /\ processors' = MapInsert(processors, f,
                                     [path \in DOMAIN ps |-> res[path].proc])
                /\ cursor' = [cursor EXCEPT !.next = @ + 1]
                /\ hist' = [hist EXCEPT !.seen =
                              [path \in DOMAIN @ |->
                                  IF path \in DOMAIN res
                                  THEN [@[path] EXCEPT !.lines = Append(@, cursor.next)]
                                  ELSE @[path]]]
                /\ pc' = "read"
    /\ UNCHANGED <<config, ctx, grouped, canonicals, files, cache>>
    /\ UNCHANGED procVars
    /\ UNCHANGED rangeVars

\* Mutant: a processor without records writes no file.
WriteFiles_skip_empty ==
    /\ pc = "read"
    /\ cursor.next > ReadableUpTo(files[cursor.file].lines)
    /\ LET ps == processors[cursor.file]
           wr == {path \in DOMAIN ps : ps[path].records # <<>>}
       IN  /\ cache' = [path \in wr |-> write_csv(ps[path])] @@ cache
           /\ hist' = [hist EXCEPT !.written = @ \cup wr]
    /\ processors' = MapRemove(processors, cursor.file)
    /\ cursor' = 0
    /\ pc' = "scan"
    /\ UNCHANGED <<config, ctx, grouped, canonicals, files>>
    /\ UNCHANGED procVars
    /\ UNCHANGED rangeVars

\* End of the file: every processor of the file writes its cache file.
WriteFiles ==
    /\ pc = "read"
    /\ cursor.next > ReadableUpTo(files[cursor.file].lines)
    /\ LET ps == processors[cursor.file]
       IN  /\ cache' = [path \in DOMAIN ps |-> write_csv(ps[path])] @@ cache
           /\ hist' = [hist EXCEPT !.written = @ \cup DOMAIN ps]
    /\ processors' = MapRemove(processors, cursor.file)
    /\ cursor' = 0
    /\ pc' = "scan"
    /\ UNCHANGED <<config, ctx, grouped, canonicals, files>>
    /\ UNCHANGED procVars
    /\ UNCHANGED rangeVars

\* ResolvedGraphConfig::resolve_data_points_count, then Ok(()).
ResolveDataPoints ==
    /\ pc = "scan"
    /\ DOMAIN processors = {}
    /\ IF \A pos \in Range(AllPositions(config)) :
             expect_shared_csv_filename(LineAt(config, pos)) \in DOMAIN cache
       THEN /\ config' = [p \in 1..Len(config) |-> [l \in 1..Len(config[p]) |->
                            [config[p][l] EXCEPT !.data_points_count =
                                Len(cache[expect_shared_csv_filename(config[p][l])])]]]
            /\ pc' = "done"
       ELSE /\ pc' = "error"
            /\ UNCHANGED config
    /\ UNCHANGED <<ctx, grouped, canonicals, processors, cursor, files, cache, hist>>
    /\ UNCHANGED procVars
    /\ UNCHANGED rangeVars

-----------------------------------------------------------------------------
(* Range resolution (align_ranges.rs)                                      *)
(* A NaiveDateTime is an integer number of microseconds since the start of *)
(* 2025-01-01; a window is <<start, end>>.                                 *)

MicrosPerMs == 1000

SetMin(S) == CHOOSE x \in S : \A y \in S : x <= y
SetMax(S) == CHOOSE x \in S : \A y \in S : x >= y

\* ResolvedPanel::new_with_lines: the fields of a panel besides its lines.
ResolvedPanel_new == [time_range_mode |-> None, time_range |-> None]
NewPanels(cfg) == [p \in 1..Len(cfg) |-> ResolvedPanel_new]

ResolvedPanel_set_time_range(panel, start, end) ==
    [panel EXCEPT !.time_range = Some(<<start, end>>)]
ResolvedLine_set_time_range(line, start, end) ==
    [line EXCEPT !.time_range = Some(<<start, end>>)]

\* The locals of resolve_panels_ranges before it runs.
NoAlign == [total |-> None, mode |-> None, error |-> None]

\* Mutant: the date column is not read.
parse_timestamp_time_only(d, t) == t * MicrosPerMs

\* csv_range_from_file::parse_timestamp on the date and time columns of a
\* row ("%Y-%m-%d %H:%M:%S%.f").
parse_timestamp(d, t) == (d * MsPerDay + t) * MicrosPerMs

\* Mutant: the window is read from the second data row on.
csv_range_from_file_skip_row(c, path) ==
    IF path \notin DOMAIN c THEN [error |-> Some("IoError"), range |-> None]
    ELSE LET rows == c[path]
         IN  IF Len(rows) <= 1 THEN [error |-> None, range |-> None]
             ELSE [error |-> None,
                   range |-> Some(<<parse_timestamp(rows[2].date, rows[2].time),
                                    parse_timestamp(rows[Len(rows)].date,
                                                    rows[Len(rows)].time)>>)]

\* csv_range_from_file: [error, range]. The header is line 0 of the file;
\* the window is (first data row, last data row), or (first, first) when
\* there is one data row, or None when there is none.
csv_range_from_file(c, path) ==
    IF path \notin DOMAIN c THEN [error |-> Some("IoError"), range |-> None]
    ELSE LET rows == c[path]
         IN  IF Len(rows) = 0 THEN [error |-> None, range |-> None]
             ELSE LET start == parse_timestamp(rows[1].date, rows[1].time)
                  IN  IF Len(rows) = 1
                      THEN [error |-> None, range |-> Some(<<start, start>>)]
                      ELSE [error |-> None,
                            range |-> Some(<<start,
                                             parse_timestamp(rows[Len(rows)].date,
                                                             rows[Len(rows)].time)>>)]

\* ResolvedGraphConfig::populate_line_ranges: [cfg, error]. The lines before
\* the first one whose file cannot be read have their window set.
populate_line_ranges(cfg, c) ==
    LET pos    == AllPositions(cfg)
        res(i) == csv_range_from_file(c, expect_shared_csv_filename(LineAt(cfg, pos[i])))
        bad    == {i \in 1..Len(pos) : res(i).error # None}
        stop   == IF bad = {} THEN Len(pos) + 1 ELSE SetMin(bad)
        idx(p, l) == CHOOSE i \in 1..Len(pos) : pos[i] = <<p, l>>
    IN  [cfg |-> [p \in 1..Len(cfg) |-> [l \in 1..Len(cfg[p]) |->
                    IF idx(p, l) < stop /\ res(idx(p, l)).range # None
                    THEN ResolvedLine_set_time_range(cfg[p][l],
                             Unwrap(res(idx(p, l)).range)[1],
                             Unwrap(res(idx(p, l)).range)[2])
                    ELSE cfg[p][l]]],
         error |-> IF bad = {} THEN None ELSE res(stop).error]

\* The windows of the lines of a sequence that have one.
LineRanges(lines) ==
    {Unwrap(lines[i].time_range) : i \in {j \in 1..Len(lines) : lines[j].time_range # None}}

\* Mutant: without any line window the total range is the empty range at 0.
global_time_range_lenient(cfg) ==
    LET rs == LineRanges(all_lines(cfg))
    IN  IF rs = {} THEN [error |-> None, range |-> Some(<<0, 0>>)]
        ELSE [error |-> None,
              range |-> Some(<<SetMin({r[1] : r \in rs}), SetMax({r[2] : r \in rs})>>)]

\* ResolvedGraphConfig::global_time_range: [error, range].
global_time_range(cfg) ==
    LET rs == LineRanges(all_lines(cfg))
    IN  IF rs = {} THEN [error |-> Some("EmptyRangeError"), range |-> None]
        ELSE [error |-> None,
              range |-> Some(<<SetMin({r[1] : r \in rs}), SetMax({r[2] : r \in rs})>>)]

\* Mutant: BestFit keeps (max start, min end) also when it is empty.
resolve_time_range_no_fallback(lines, panel) ==
    LET rs == LineRanges(lines)
    IN  IF rs = {} THEN panel
        ELSE IF panel.time_range_mode = Some("BestFit")
        THEN ResolvedPanel_set_time_range(panel, SetMax({r[1] : r \in rs}),
                                                 SetMin({r[2] : r \in rs}))
        ELSE ResolvedPanel_set_time_range(panel, SetMin({r[1] : r \in rs}),
                                                 SetMax({r[2] : r \in rs}))

\* ResolvedPanel::resolve_time_range, on the lines of the panel.
resolve_time_range(lines, panel) ==
    LET rs   == LineRanges(lines)
        min  == SetMin({r[1] : r \in rs})
        max  == SetMax({r[2] : r \in rs})
        mode == IF panel.time_range_mode = None THEN "Full"
                ELSE Unwrap(panel.time_range_mode)
    IN  IF rs = {} THEN panel
        ELSE IF mode = "Full" THEN ResolvedPanel_set_time_range(panel, min, max)
        ELSE LET start == SetMax({r[1] : r \in rs})
                 end   == SetMin({r[2] : r \in rs})
             IN  IF start < end THEN ResolvedPanel_set_time_range(panel, start, end)
                 ELSE ResolvedPanel_set_time_range(panel, min, max)

PerPanel      == [kind |-> "PerPanel"]
SharedFull    == [kind |-> "SharedFull"]
SharedOverlap == [kind |-> "SharedOverlap"]
Fixed(start, end) == [kind |-> "Fixed", start |-> start, end |-> end]

SetAll(pans, start, end) ==
    [p \in 1..Len(pans) |-> ResolvedPanel_set_time_range(pans[p], start, end)]

\* Mutant: SharedOverlap applies (max start, min end) also when it is empty.
AlignOverlap_always(own) ==
    LET rs == {Unwrap(own[p].time_range) :
                  p \in {q \in 1..Len(own) : own[q].time_range # None}}
    IN  IF rs = {} THEN own
        ELSE SetAll(own, SetMax({r[1] : r \in rs}), SetMin({r[2] : r \in rs}))

\* resolve_panels_ranges_inner, the SharedOverlap arm, on the panels as the
\* per-panel resolution left them.
AlignOverlap(own) ==
    LET rs == {Unwrap(own[p].time_range) :
                  p \in {q \in 1..Len(own) : own[q].time_range # None}}
        global_start == SetMax({r[1] : r \in rs})
        global_end   == SetMin({r[2] : r \in rs})
    IN  IF rs = {} THEN own
        ELSE IF global_start < global_end THEN SetAll(own, global_start, global_end)
        ELSE own

\* Mutant: the shared window is the window of the first panel that has one.
AlignFull_first_panel(own) ==
    LET with == {q \in 1..Len(own) : own[q].time_range # None}
    IN  IF with = {} THEN [panels |-> own, panic |-> FALSE]
        ELSE LET w == Unwrap(own[SetMin(with)].time_range)
             IN  IF w[1] < w[2] THEN [panels |-> SetAll(own, w[1], w[2]), panic |-> FALSE]
                 ELSE [panels |-> own, panic |-> TRUE]

\* resolve_panels_ranges_inner, the SharedFull arm: [panels, panic].
AlignFull(own) ==
    LET rs == {Unwrap(own[p].time_range) :
                  p \in {q \in 1..Len(own) : own[q].time_range # None}}
        global_start == SetMin({r[1] : r \in rs})
        global_end   == SetMax({r[2] : r \in rs})
    IN  IF rs = {} THEN [panels |-> own, panic |-> FALSE]
        ELSE IF global_start < global_end
        THEN [panels |-> SetAll(own, global_start, global_end), panic |-> FALSE]
        ELSE [panels |-> own, panic |-> TRUE]

\* resolve_panels_ranges_inner: [panels, panic]. When it panics the panels
\* are as the per-panel resolution left them.
resolve_panels_ranges_inner(cfg, pans, align_mode) ==
    LET own == [p \in 1..Len(pans) |-> resolve_time_range(cfg[p], pans[p])]
    IN  CASE align_mode.kind = "PerPanel" -> [panels |-> own, panic |-> FALSE]
          [] align_mode.kind = "SharedFull" -> AlignFull(own)
          [] align_mode.kind = "SharedOverlap" ->
               [panels |-> AlignOverlap(own), panic |-> FALSE]
          [] align_mode.kind = "Fixed" ->
               [panels |-> SetAll(own, align_mode.start, align_mode.end),
                panic |-> FALSE]

\* f64::round of x / d, d > 0: to the nearest integer, halves away from zero.
RoundDiv(x, d) ==
    IF x >= 0 THEN (2 * x + d) \div (2 * d) ELSE -((2 * (-x) + d) \div (2 * d))

\* TimeRangeArg::resolve::scale_duration, duration in microseconds.
scale_duration(duration, frac) == RoundDiv(duration * frac.n, frac.d)

\* NaiveDate::from_ymd_opt(1970, 1, 1), in days from 2025-01-01.
EpochDay == -20089

Relative(start_frac, end_frac) ==
    [kind |-> "Relative", start_frac |-> start_frac, end_frac |-> end_frac]
\* a and b are what the two strings parse to with the timestamp format: an
\* Option of microseconds, since 2025-01-01 for a date-time format, since
\* midnight for a time-only format.
AbsoluteDateTime(a, b) == [kind |-> "AbsoluteDateTime", a |-> a, b |-> b]

\* TimeRangeArg::resolve: [error, range].
TimeRangeArg_resolve(arg, total_range, format) ==
    IF arg.kind = "Relative"
    THEN LET duration == total_range[2] - total_range[1]
         IN  [error |-> None,
              range |-> Some(<<total_range[1] + scale_duration(duration, arg.start_frac),
                               total_range[1] + scale_duration(duration, arg.end_frac)>>)]
    ELSE IF arg.a = None \/ arg.b = None
         THEN [error |-> Some("CvsDateParseError"), range |-> None]
         ELSE IF format = "DateTime"
              THEN [error |-> None, range |-> Some(<<Unwrap(arg.a), Unwrap(arg.b)>>)]
              ELSE LET base_date == EpochDay * MsPerDay * MicrosPerMs
                   IN  [error |-> None,
                        range |-> Some(<<base_date + Unwrap(arg.a),
                                         base_date + Unwrap(arg.b)>>)]

\* SharedGraphContext::resolved_alignment_mode: [error, mode].
resolved_alignment_mode(c, total_range) ==
    IF c.time_range # None
    THEN LET resolved == TimeRangeArg_resolve(Unwrap(c.time_range), total_range,
                                              c.timestamp_format)
         IN  IF resolved.error # None THEN [error |-> resolved.error, mode |-> None]
             ELSE [error |-> None,
                   mode |-> Some(Fixed(Unwrap(resolved.range)[1],
                                       Unwrap(resolved.range)[2]))]
    ELSE [error |-> None,
          mode |-> Some(CASE c.panel_alignment_mode = Some("SharedOverlap") -> SharedOverlap
                          [] c.panel_alignment_mode = Some("SharedFull") -> SharedFull
                          [] OTHER -> PerPanel)]

\* resolve_panels_ranges, first step: config.populate_line_ranges()?
PopulateLineRanges ==
    /\ pc = "done"
    /\ LET r == populate_line_ranges(config, cache)
       IN  /\ config' = r.cfg
           /\ align' = [align EXCEPT !.error = r.error]
           /\ pc' = IF r.error # None THEN "range_error" ELSE "populated"
    /\ UNCHANGED <<ctx, grouped, canonicals, processors, cursor, files, cache, hist,
                   panels>>
    /\ UNCHANGED procVars

\* resolve_panels_ranges, second step: config.global_time_range()? and
\* shared_context.resolved_alignment_mode(global_range)?
ResolveAlignmentMode ==
    /\ pc = "populated"
    /\ LET g == global_time_range(config)
       IN  IF g.error # None
           THEN /\ align' = [align EXCEPT !.error = g.error]
                /\ pc' = "range_error"
           ELSE LET m == resolved_alignment_mode(ctx, Unwrap(g.range))
                IN  /\ align' = [total |-> g.range, mode |-> m.mode, error |-> m.error]
                    /\ pc' = IF m.error # None THEN "range_error" ELSE "mode"
    /\ UNCHANGED <<config, ctx, grouped, canonicals, processors, cursor, files, cache,
                   hist, panels>>
    /\ UNCHANGED procVars

\* resolve_panels_ranges, last step: resolve_panels_ranges_inner.
AlignPanels ==
    /\ pc = "mode"
    /\ LET r == resolve_panels_ranges_inner(config, panels, Unwrap(align.mode))
       IN  /\ panels' = r.panels
           /\ pc' = IF r.panic THEN "panic" ELSE "aligned"
    /\ UNCHANGED <<config, ctx, grouped, canonicals, processors, cursor, files, cache,
                   hist, align>>
    /\ UNCHANGED procVars

-----------------------------------------------------------------------------
(* SpecDedup: propagate_shared_csv_files on every small configuration      *)

\* Lines of a configuration.
MaxLines == 3

SrcX == [dir |-> <<"a">>, name |-> "x.log"]
SrcY == [dir |-> <<"a">>, name |-> "y.log"]
CacheRoot == <<"c">>

\* The lines of the configurations: three (guard, token, source) triples, the
\* first with every kind of DataSource and two yvalues.
DedupLines ==
    {ResolvedLine_from_explicit_name(ds, SrcX) :
        ds \in {new_plot_field(None, TokD),
                new_event_value(None, TokD, 1),
                new_event_value(None, TokD, 2),
                new_event_count(None, TokD),
                new_event_delta(None, TokD)}}
    \cup
    {ResolvedLine_from_explicit_name(ds, SrcX) :
        ds \in {new_plot_field(Some(GuardG), TokRe),
                new_event_count(Some(GuardG), TokRe)}}
    \cup
    {ResolvedLine_from_explicit_name(ds, SrcY) :
        ds \in {new_event_value(None, TokD, 1),
                new_event_delta(None, TokD)}}

SeqsUpTo(S, n) == UNION {[1..m -> S] : m \in 1..n}

\* The panels made of a sequence of lines: one panel, or the first line in a
\* panel of its own.
Layouts(ls) ==
    {<<ls>>} \cup (IF Len(ls) > 1 THEN {<<SubSeq(ls, 1, 1), SubSeq(ls, 2, Len(ls))>>}
                   ELSE {})

EmptyFile == [mtime |-> 0, lines |-> <<>>]

InitDedup ==
    /\ pc = "start"
    /\ \E ls \in SeqsUpTo(DedupLines, MaxLines) : config \in Layouts(ls)
    /\ \/ /\ ctx = [force_csv_regen |-> FALSE, cache_dir |-> None,
                    timestamp_format |-> "DateTime"]
          /\ files = (PathStr(SrcX) :> EmptyFile) @@ (PathStr(SrcY) :> EmptyFile)
       \/ /\ ctx = [force_csv_regen |-> FALSE, cache_dir |-> Some(CacheRoot),
                    timestamp_format |-> "DateTime"]
          /\ files = (PathStr(SrcX) :> EmptyFile)
    /\ grouped = {}
    /\ canonicals = EmptyMap
    /\ processors = EmptyMap
    /\ cursor = 0
    /\ cache = EmptyMap
    /\ hist = <<>>
    /\ panels = NewPanels(config)
    /\ align = NoAlign
    /\ proc = <<>>
    /\ fed = 0
    /\ outcome = "start"

NextDedup == GroupLines \/ ResolveGroup

SpecDedup == InitDedup /\ [][NextDedup]_vars

-----------------------------------------------------------------------------
(* Claims about the dedup resolver                                         *)

Resolved == pc = "resolved"

Kind(line) == line.data_source.kind
Positions == Range(AllPositions(config))
PathOf(pos) == expect_shared_csv_filename(LineAt(config, pos))
\* The cache file computed from the line's own DataSource.
OwnPath(pos) ==
    Unwrap(get_cache_dir(ctx, files, LineAt(config, pos).source))
        \o "/" \o get_csv_filename(files, LineAt(config, pos))
MembersOf(k) == {pos \in Positions : MatchKey(LineAt(config, pos)) = k}
ValueKinds == {"FieldValue", "EventValue"}
\* Two FieldValue/EventValue sources extract different values.
DifferInValue(a, b) ==
    \/ a.kind # b.kind
    \/ a.kind = "EventValue" /\ b.kind = "EventValue" /\ a.yvalue # b.yvalue

\* C4: two distinct cache files of the returned map whose representatives
\* have the same (guard, token, source) triple are both FieldValue/EventValue
\* files that differ in kind or in yvalue; a group of FieldValue lines only,
\* and a group of EventCount/EventDelta lines only, yield exactly one file.
C4_OneFilePerSignal ==
    Resolved =>
      /\ \A p, q \in DOMAIN canonicals :
            (p # q /\ MatchKey(canonicals[p]) = MatchKey(canonicals[q])) =>
               /\ Kind(canonicals[p]) \in ValueKinds
               /\ Kind(canonicals[q]) \in ValueKinds
               /\ DifferInValue(canonicals[p].data_source, canonicals[q].data_source)
      /\ \A k \in GroupKeys(config) :
            (\/ \A pos \in MembersOf(k) : Kind(LineAt(config, pos)) = "FieldValue"
             \/ \A pos \in MembersOf(k) : Kind(LineAt(config, pos)) \notin ValueKinds) =>
               /\ Cardinality({PathOf(pos) : pos \in MembersOf(k)}) = 1
               /\ Cardinality({p \in DOMAIN canonicals : MatchKey(canonicals[p]) = k}) = 1

\* Three FieldValue lines of one triple and one registered file.
C4_Witness ==
    /\ Resolved
    /\ \E k \in GroupKeys(config) :
          /\ Cardinality(MembersOf(k)) = MaxLines
          /\ \A pos \in MembersOf(k) : Kind(LineAt(config, pos)) = "FieldValue"
          /\ Cardinality(DOMAIN canonicals) = 1

\* Two files of one triple: an EventValue file and a FieldValue file.
C4_WitnessTwoFiles ==
    /\ Resolved
    /\ \E p, q \in DOMAIN canonicals :
          /\ p # q /\ MatchKey(canonicals[p]) = MatchKey(canonicals[q])
          /\ Kind(canonicals[p]) = "FieldValue"
          /\ Kind(canonicals[q]) = "EventValue"

\* C5: in each group the canonical is a FieldValue line if there is one, else
\* an EventValue line if there is one, else a line of the group; every
\* EventCount/EventDelta line of the group ends with the canonical's own file.
\* A group of EventCount and EventDelta lines only shares one file, the own
\* file (count_ or delta_) of the line registered for it.
C5_CanonicalChoice ==
    Resolved =>
      \A k \in GroupKeys(config) :
        LET ms == MembersOf(k)
            hasF == \E pos \in ms : Kind(LineAt(config, pos)) = "FieldValue"
            hasE == \E pos \in ms : Kind(LineAt(config, pos)) = "EventValue"
        IN  \E c \in ms :
              /\ hasF => Kind(LineAt(config, c)) = "FieldValue"
              /\ (~hasF /\ hasE) => Kind(LineAt(config, c)) = "EventValue"
              /\ \A pos \in ms :
                    Kind(LineAt(config, pos)) \notin ValueKinds => PathOf(pos) = OwnPath(c)
              /\ OwnPath(c) \in DOMAIN canonicals
              /\ (~hasF /\ ~hasE) =>
                    /\ {PathOf(pos) : pos \in ms} = {OwnPath(c)}
                    /\ canonicals[OwnPath(c)].data_source = LineAt(config, c).data_source

\* An EventDelta line listed first, redirected to the file of the FieldValue
\* line that follows an EventValue line of its group.
C5_Witness ==
    /\ Resolved
    /\ \E a, b, c \in Positions :
          /\ a[1] = b[1] /\ b[1] = c[1] /\ a[2] < b[2] /\ b[2] < c[2]
          /\ MatchKey(LineAt(config, a)) = MatchKey(LineAt(config, b))
          /\ MatchKey(LineAt(config, a)) = MatchKey(LineAt(config, c))
          /\ Kind(LineAt(config, a)) = "EventDelta"
          /\ Kind(LineAt(config, b)) = "EventValue"
          /\ Kind(LineAt(config, c)) = "FieldValue"
          /\ PathOf(a) = OwnPath(c)

\* An EventDelta and an EventCount line alone in their group: both end with
\* the delta_ file of the first.
C5_WitnessShared ==
    /\ Resolved
    /\ \E a, b \in Positions :
          /\ a[1] = b[1] /\ a[2] < b[2]
          /\ MembersOf(MatchKey(LineAt(config, a))) = {a, b}
          /\ Kind(LineAt(config, a)) = "EventDelta"
          /\ Kind(LineAt(config, b)) = "EventCount"
          /\ PathOf(b) = OwnPath(a)
          /\ PathOf(b) # OwnPath(b)

\* C6: after the resolver returns Ok every line has a cache path, that path
\* is a key of the returned map, and every key is the cache path of the
\* representative stored under it.
C6_EveryLineHasRegisteredPath ==
    Resolved =>
      /\ \A pos \in Positions :
            /\ LineAt(config, pos).shared_csv_file # None
            /\ PathOf(pos) \in DOMAIN canonicals
      /\ \A p \in DOMAIN canonicals :
            canonicals[p].shared_csv_file = Some(p)

C6_Witness ==
    /\ Resolved
    /\ Cardinality(DOMAIN canonicals) >= 2
    /\ \E pos \in Positions : PathOf(pos) # OwnPath(pos)

\* C7: every FieldValue or EventValue line ends with the cache file computed
\* from its own DataSource, registered in the returned map; EventValue lines
\* of one group with different yvalue, and a FieldValue and an EventValue
\* line of one group, end with different files.
C7_ValueLinesKeepOwnFile ==
    Resolved =>
      /\ \A pos \in Positions :
            Kind(LineAt(config, pos)) \in ValueKinds =>
               /\ PathOf(pos) = OwnPath(pos)
               /\ PathOf(pos) \in DOMAIN canonicals
               /\ canonicals[PathOf(pos)].data_source = LineAt(config, pos).data_source
      /\ \A a, b \in Positions :
            (/\ MatchKey(LineAt(config, a)) = MatchKey(LineAt(config, b))
             /\ Kind(LineAt(config, a)) \in ValueKinds
             /\ Kind(LineAt(config, b)) \in ValueKinds
             /\ DifferInValue(LineAt(config, a).data_source, LineAt(config, b).data_source))
            => PathOf(a) # PathOf(b)

C7_Witness ==
    /\ Resolved
    /\ \E a, b, c \in Positions :
          /\ MatchKey(LineAt(config, a)) = MatchKey(LineAt(config, b))
          /\ MatchKey(LineAt(config, a)) = MatchKey(LineAt(config, c))
          /\ Kind(LineAt(config, a)) = "EventValue"
          /\ Kind(LineAt(config, b)) = "EventValue"
          /\ LineAt(config, a).data_source.yvalue # LineAt(config, b).data_source.yvalue
          /\ Kind(LineAt(config, c)) = "FieldValue"
          /\ a[2] < c[2] /\ a[1] = c[1]


-----------------------------------------------------------------------------
(* SpecRun: process_inputs run twice on the same configuration, the log    *)
(* file possibly modified between the runs                                 *)

\* Lines of a configuration.
MaxRunLines == 2
\* Lines of the log file a/x.log.
MaxFileLines == 2

RunLines ==
    {ResolvedLine_from_explicit_name(ds, SrcX) :
        ds \in {new_plot_field(None, TokD),
                new_event_count(None, TokD)}}
    \cup
    {ResolvedLine_from_explicit_name(new_event_count(None, TokD), SrcY)}

\* "<ts> d=2.5": matched by the pattern d and by the field regex of d.
LineField ==
    [contains |-> {}, ts |-> Some(1),
     matches |-> {TokD, regex_pattern(new_plot_field(None, TokD))},
     cap1 |-> Some(<<"2", ".", "5">>), cap2 |-> None, readable |-> TRUE]

\* "<ts> d: 2.5": matched by the pattern d, not by the field regex of d.
LineWord ==
    [contains |-> {}, ts |-> Some(MaxTick), matches |-> {TokD},
     cap1 |-> None, cap2 |-> None, readable |-> TRUE]

\* A line the reader fails on (an I/O error, bytes that are not UTF-8).
LineUnreadable ==
    [contains |-> {}, ts |-> None, matches |-> {},
     cap1 |-> None, cap2 |-> None, readable |-> FALSE]

LogLines == {LineField, LineWord, LineUnreadable}

FileContents == {<<>>} \cup SeqsUpTo(LogLines, MaxFileLines)

NewHist(run, prev, changed) ==
    [run |-> run, created |-> <<>>, opened |-> <<>>, seen |-> EmptyMap,
     written |-> {}, reused |-> {}, prev |-> prev, changed |-> changed]

InitRun ==
    /\ pc = "start"
    /\ \E ls \in SeqsUpTo(RunLines, MaxRunLines) : config = <<ls>>
    /\ \E force \in BOOLEAN :
          ctx = [force_csv_regen |-> force, cache_dir |-> None,
                 timestamp_format |-> "DateTime",
                 panel_alignment_mode |-> None, time_range |-> None]
    /\ \E content \in FileContents :
          files = (PathStr(SrcX) :> [mtime |-> 0, lines |-> content])
                  @@ (PathStr(SrcY) :> [mtime |-> 0, lines |-> <<LineField>>])
    /\ grouped = {}
    /\ canonicals = EmptyMap
    /\ processors = EmptyMap
    /\ cursor = 0
    /\ cache = EmptyMap
    /\ hist = NewHist("first", <<>>, FALSE)
    /\ panels = NewPanels(config)
    /\ align = NoAlign
    /\ proc = <<>>
    /\ fed = 0
    /\ outcome = "start"

\* The log grows by a line, or is rotated when it is full.
Modified(lines) ==
    IF Len(lines) < MaxFileLines THEN Append(lines, LineField) ELSE Tail(lines)

\* The program is run again with the same arguments: the configuration is
\* resolved anew, the cache directory is as the first run left it. The log
\* file a/x.log is as it was, or was modified in between: its modification
\* time is later, by less than a second or by a second.
RunAgain ==
    /\ pc = "done"
    /\ hist.run = "first"
    /\ \E changed \in BOOLEAN :
          /\ IF changed
             THEN \E dt \in 1..MtimeTicksPerSec :
                     files' = [files EXCEPT ![PathStr(SrcX)] =
                                 [mtime |-> @.mtime + dt, lines |-> Modified(@.lines)]]
             ELSE files' = files
          /\ hist' = NewHist("second",
                        [i \in 1..NumLines |->
                            expect_shared_csv_filename(all_lines(config)[i])],
                        changed)
    /\ config' = [p \in 1..Len(config) |-> [l \in 1..Len(config[p]) |->
                    ResolvedLine_from_explicit_name(config[p][l].data_source,
                                                    config[p][l].source)]]
    /\ grouped' = {}
    /\ canonicals' = EmptyMap
    /\ processors' = EmptyMap
    /\ cursor' = 0
    /\ pc' = "start"
    /\ UNCHANGED <<ctx, cache>>
    /\ UNCHANGED procVars
    /\ UNCHANGED rangeVars

NextRun ==
    \/ GroupLines
    \/ ResolveGroup
    \/ VisitLine
    \/ OpenFile
    \/ ReadLine
    \/ WriteFiles
    \/ ResolveDataPoints
    \/ PopulateLineRanges
    \/ ResolveAlignmentMode
    \/ AlignPanels
    \/ RunAgain

SpecRun == InitRun /\ [][NextRun]_vars

-----------------------------------------------------------------------------
(* Claims about process_inputs                                             *)

\* hist is what a run has done so far:
\*   created : the cache paths LineProcessors were created for, in order
\*   opened  : the log files opened, in order
\*   seen    : per created processor, its log file and the numbers of the
\*             lines it was given, in order
\*   written : the cache paths written
\*   reused  : the cache paths found present and used as they were
\*   prev    : in the second run, the cache path of each line in the first
\*   changed : in the second run, whether a/x.log was modified in between
Done == pc = "done"

NoDuplicates(seq) == \A i, j \in 1..Len(seq) : seq[i] = seq[j] => i = j

RECURSIVE ScanFrom(_, _, _)
\* The processor p after the first n of the lines.
ScanFrom(p, lines, n) ==
    IF n = 0 THEN p ELSE feed(ScanFrom(p, lines, n - 1), lines[n]).proc

\* The rows a scan of the line's log file with the line's own data source
\* writes.
DedicatedScan(line) ==
    LET lines == files[PathStr(line.source)].lines
    IN  write_csv(ScanFrom(from_data_source(line.data_source, None,
                               ctx.timestamp_format, PathStr(line.source)),
                           lines, ReadableUpTo(lines)))

CountDelta(rows) == [i \in 1..Len(rows) |-> <<rows[i].count, rows[i].delta>>]

\* C3: for an EventCount or EventDelta line redirected to the cache file of
\* another line, the count and delta columns of the file this run wrote are
\* those of a scan of the log file with the line's own guard and pattern.
C3_RedirectedColumnsAsDedicatedScan ==
    Done =>
      \A pos \in Positions :
         (/\ can_csv_file_be_shared(LineAt(config, pos).data_source)
          /\ PathOf(pos) # OwnPath(pos)
          /\ PathOf(pos) \in hist.written)
         => CountDelta(cache[PathOf(pos)]) = CountDelta(DedicatedScan(LineAt(config, pos)))

\* C8: in a run that returns Ok at most one processor was created per cache
\* path, each log file was opened at most once, and every processor was given
\* every line of its log file, in file order.
C8_OnePassEveryLine ==
    Done =>
      /\ NoDuplicates(hist.created)
      /\ NoDuplicates(hist.opened)
      /\ \A path \in DOMAIN hist.seen :
            hist.seen[path].lines =
               [i \in 1..Len(files[hist.seen[path].input].lines) |-> i]

\* C9: without force_csv_regen no step changes a cache file that exists and
\* no processor is created for a path whose file exists; with force_csv_regen
\* a run that returns Ok has written the cache file of every line, with the
\* rows of a scan of the log file by the data source of the line that owns it.
C9_ForceRegenFrame ==
    /\ [][~ctx.force_csv_regen =>
            /\ \A p \in DOMAIN cache : p \in DOMAIN cache' /\ cache'[p] = cache[p]
            /\ \A f \in DOMAIN processors' : \A p \in DOMAIN processors'[f] :
                  (f \notin DOMAIN processors \/ p \notin DOMAIN processors[f])
                  => p \notin DOMAIN cache]_vars
    /\ [](Done /\ ctx.force_csv_regen =>
            \A pos \in Positions :
               /\ PathOf(pos) \in hist.written
               /\ \E owner \in Positions :
                     /\ OwnPath(owner) = PathOf(pos)
                     /\ cache[PathOf(pos)] = DedicatedScan(LineAt(config, owner)))

\* The second run, not forced, finds every cache file present and creates no
\* processor.
C9_Witness ==
    /\ Done
    /\ hist.run = "second"
    /\ ~ctx.force_csv_regen
    /\ hist.reused # {}
    /\ hist.created = <<>>
    /\ hist.written = {}

\* The second run, forced, rewrites files the first run left.
C9_WitnessForced ==
    /\ Done
    /\ hist.run = "second"
    /\ ctx.force_csv_regen
    /\ hist.written # {}
    /\ \E pos \in Positions : Len(cache[PathOf(pos)]) > 0

\* C10: when a/x.log was modified between the two runs, the cache path of each
\* of its lines differs from the one of the first run, and a second run
\* without force_csv_regen does not use a cache file as it was.
C10_ChangedSourceNewFilename ==
    (Done /\ hist.run = "second" /\ hist.changed) =>
      \A i \in 1..NumLines :
         all_lines(config)[i].source = SrcX =>
            /\ expect_shared_csv_filename(all_lines(config)[i]) # hist.prev[i]
            /\ ~ctx.force_csv_regen =>
                  expect_shared_csv_filename(all_lines(config)[i]) \notin hist.reused

-----------------------------------------------------------------------------
(* SpecRange: resolve_panels_ranges after process_inputs has returned Ok,  *)
(* on configurations whose cache files hold various windows                *)

\* Lines of a configuration.
MaxRangeLines == 2

\* The cache row of a record made at millisecond t of a date-time log.
RowAt(t) ==
    [date |-> t \div MsPerDay, time |-> t % MsPerDay, value |-> F(1, 1),
     count |-> 1, delta |-> 0]

\* Cache files by name: without a data row, with one row, with rows in
\* increasing time, and with the last row before the first (a log whose
\* timestamps go back).
RangeFiles ==
    ("none.csv" :> <<>>)
    @@ ("at0.csv" :> <<RowAt(0)>>)
    @@ ("at1.csv" :> <<RowAt(1)>>)
    @@ ("from0to1.csv" :> <<RowAt(0), RowAt(1)>>)
    @@ ("from0to2.csv" :> <<RowAt(0), RowAt(1), RowAt(2)>>)
    @@ ("from1to3.csv" :> <<RowAt(1), RowAt(3)>>)
    @@ ("from2to3.csv" :> <<RowAt(2), RowAt(3)>>)
    @@ ("from2to0.csv" :> <<RowAt(2), RowAt(0)>>)

\* A line as process_inputs leaves it: cache path and data-point count set.
RangeLines ==
    {[ResolvedLine_from_explicit_name(new_event_count(None, TokD), SrcX)
        EXCEPT !.shared_csv_file = Some(f),
               !.data_points_count = Len(RangeFiles[f])] : f \in DOMAIN RangeFiles}

\* The lines whose cache file a time-only run wrote: every row carries the
\* placeholder date.
TimeRangeLines ==
    {l \in RangeLines :
        \A i \in 1..Len(RangeFiles[Unwrap(l.shared_csv_file)]) :
           RangeFiles[Unwrap(l.shared_csv_file)][i].date = PlaceholderDay}

PanelRangeModes == {None, Some("Full"), Some("BestFit")}

\* --panel-alignment-mode and --time-range: at most one of them.
RangeContexts ==
    {[force_csv_regen |-> FALSE, cache_dir |-> None, timestamp_format |-> "DateTime",
      panel_alignment_mode |-> m, time_range |-> None] :
        m \in {None, Some("PerPanel"), Some("SharedFull"), Some("SharedOverlap")}}
    \cup
    {[force_csv_regen |-> FALSE, cache_dir |-> None, timestamp_format |-> "DateTime",
      panel_alignment_mode |-> None, time_range |-> Some(tr)] :
        tr \in {Relative(F(0, 1), F(1, 2)),
                AbsoluteDateTime(Some(1 * MicrosPerMs), Some(2 * MicrosPerMs)),
                AbsoluteDateTime(Some(1 * MicrosPerMs), None)}}

\* --timestamp-format with a time-only format and an absolute --time-range
\* of two times of day, in microseconds since midnight.
TimeRangeContexts ==
    {[force_csv_regen |-> FALSE, cache_dir |-> None, timestamp_format |-> "Time",
      panel_alignment_mode |-> None,
      time_range |-> Some(AbsoluteDateTime(Some(0), Some(MicrosPerMs \div 2)))]}

InitRange ==
    /\ pc = "done"
    /\ \/ /\ ctx \in RangeContexts
          /\ \E ls \in SeqsUpTo(RangeLines, MaxRangeLines) : config \in Layouts(ls)
       \/ /\ ctx \in TimeRangeContexts
          /\ \E ls \in SeqsUpTo(TimeRangeLines, MaxRangeLines) : config \in Layouts(ls)
    /\ panels \in [1..Len(config) -> {[time_range_mode |-> m, time_range |-> None] :
                                        m \in PanelRangeModes}]
    /\ align = NoAlign
    /\ cache = RangeFiles
    /\ files = (PathStr(SrcX) :> EmptyFile)
    /\ grouped = {}
    /\ canonicals = EmptyMap
    /\ processors = EmptyMap
    /\ cursor = 0
    /\ hist = <<>>
    /\ proc = <<>>
    /\ fed = 0
    /\ outcome = "start"

NextRange ==
    \/ PopulateLineRanges
    \/ ResolveAlignmentMode
    \/ AlignPanels

SpecRange == InitRange /\ [][NextRange]_vars

-----------------------------------------------------------------------------
(* Claims about range resolution                                           *)

Aligned == pc = "aligned"
AlignKind == Unwrap(align.mode).kind
PanelIds == 1..Len(config)

\* The windows of the lines of panel p.
WindowsOf(p) ==
    {Unwrap(config[p][l].time_range) :
        l \in {k \in 1..Len(config[p]) : config[p][k].time_range # None}}

FullOf(ws) == <<SetMin({w[1] : w \in ws}), SetMax({w[2] : w \in ws})>>
FitOf(ws)  == <<SetMax({w[1] : w \in ws}), SetMin({w[2] : w \in ws})>>

\* The window the range mode of panel p gives for the windows of its lines.
OwnWindow(p) ==
    IF panels[p].time_range_mode = Some("BestFit")
       /\ FitOf(WindowsOf(p))[1] < FitOf(WindowsOf(p))[2]
    THEN FitOf(WindowsOf(p))
    ELSE FullOf(WindowsOf(p))

\* C12: with PerPanel alignment (which keeps the per-panel windows) a panel
\* with line windows has (min start, max end) in Full mode and without a
\* mode; in BestFit mode it has (max start, min end) when that start is
\* before that end, and (min start, max end) otherwise.
C12_PanelWindowByRangeMode ==
    (Aligned /\ AlignKind = "PerPanel") =>
      \A p \in PanelIds :
         WindowsOf(p) # {} =>
            panels[p].time_range =
               Some(IF panels[p].time_range_mode = Some("BestFit")
                    THEN IF FitOf(WindowsOf(p))[1] < FitOf(WindowsOf(p))[2]
                         THEN FitOf(WindowsOf(p))
                         ELSE FullOf(WindowsOf(p))
                    ELSE FullOf(WindowsOf(p)))

\* A BestFit panel of two overlapping lines: its window is the overlap.
C12_Witness ==
    /\ Aligned
    /\ AlignKind = "PerPanel"
    /\ \E p \in PanelIds :
          /\ panels[p].time_range_mode = Some("BestFit")
          /\ Cardinality(WindowsOf(p)) = 2
          /\ panels[p].time_range = Some(FitOf(WindowsOf(p)))
          /\ FitOf(WindowsOf(p)) # FullOf(WindowsOf(p))

\* A BestFit panel of two lines that do not overlap: the full window.
C12_WitnessFallback ==
    /\ Aligned
    /\ AlignKind = "PerPanel"
    /\ \E p \in PanelIds :
          /\ panels[p].time_range_mode = Some("BestFit")
          /\ FitOf(WindowsOf(p))[1] > FitOf(WindowsOf(p))[2]
          /\ panels[p].time_range = Some(FullOf(WindowsOf(p)))

\* The panels with a line window.
WithWindow == {p \in PanelIds : WindowsOf(p) # {}}

\* C13: with SharedOverlap alignment, S the latest start and E the earliest
\* end of the per-panel windows: when S < E every panel that has a window
\* ends with (S, E); otherwise every panel ends with what its own range mode
\* gave it.
C13_SharedOverlap ==
    (Aligned /\ AlignKind = "SharedOverlap") =>
      LET S == SetMax({OwnWindow(p)[1] : p \in WithWindow})
          E == SetMin({OwnWindow(p)[2] : p \in WithWindow})
      IN  IF S < E
          THEN \A p \in WithWindow : panels[p].time_range = Some(<<S, E>>)
          ELSE \A p \in PanelIds :
                  panels[p].time_range =
                     IF p \in WithWindow THEN Some(OwnWindow(p)) ELSE None

\* Two panels with different windows that overlap: both end with the overlap.
C13_Witness ==
    /\ Aligned
    /\ AlignKind = "SharedOverlap"
    /\ \E p, q \in WithWindow :
          /\ OwnWindow(p) # OwnWindow(q)
          /\ panels[p].time_range = panels[q].time_range
          /\ panels[p].time_range # Some(OwnWindow(p))
          /\ panels[q].time_range # Some(OwnWindow(q))

\* Two panels whose windows do not overlap: each keeps its own.
C13_WitnessNoOverlap ==
    /\ Aligned
    /\ AlignKind = "SharedOverlap"
    /\ \E p, q \in WithWindow :
          /\ OwnWindow(p)[2] < OwnWindow(q)[1]
          /\ panels[p].time_range = Some(OwnWindow(p))
          /\ panels[q].time_range = Some(OwnWindow(q))

\* resolve_panels_ranges has gone through resolve_panels_ranges_inner: it
\* returned Ok, or panicked.
Ended == pc \in {"aligned", "panic"}

\* C14: once resolution with SharedFull alignment has ended, every panel that
\* has a window has (earliest start, latest end) of the per-panel windows.
C14_SharedFull ==
    (Ended /\ AlignKind = "SharedFull") =>
      \A p \in WithWindow :
         panels[p].time_range =
            Some(<<SetMin({OwnWindow(q)[1] : q \in WithWindow}),
                   SetMax({OwnWindow(q)[2] : q \in WithWindow})>>)

\* C15: a panel none of whose lines has a window has no window once
\* resolution has ended, unless the alignment is Fixed.
C15_WindowlessPanelStaysWindowless ==
    (Ended /\ AlignKind # "Fixed") =>
      \A p \in PanelIds \ WithWindow : panels[p].time_range = None

\* The bijections of 1..n.
Perms(n) == {f \in [1..n -> 1..n] : \A i, j \in 1..n : f[i] = f[j] => i = j}

\* The orders of a sequence of lines.
LinePerms(lines) == {[i \in 1..Len(lines) |-> lines[f[i]]] : f \in Perms(Len(lines))}

\* resolve_panels_ranges as a function of the configuration, the panels and
\* the context: [pc, panels].
ResolvePanelsRanges(cfg, pans, c, csvs) ==
    LET pl == populate_line_ranges(cfg, csvs)
        g  == global_time_range(pl.cfg)
        m  == resolved_alignment_mode(c, Unwrap(g.range))
        r  == resolve_panels_ranges_inner(pl.cfg, pans, Unwrap(m.mode))
    IN  IF pl.error # None \/ g.error # None \/ m.error # None
        THEN [pc |-> "range_error", panels |-> pans]
        ELSE [pc |-> IF r.panic THEN "panic" ELSE "aligned", panels |-> r.panels]

\* C16: when resolve_panels_ranges has ended, it ends in the same way, and
\* with the same window for each panel, on every configuration that has the
\* same panels in another order, each with its lines in another order.
C16_OrderIndependent ==
    pc \in {"aligned", "panic", "range_error"} =>
      \A f \in Perms(Len(config)) :
         \A cfg \in {c \in [PanelIds -> UNION {LinePerms(config[p]) : p \in PanelIds}] :
                       \A p \in PanelIds : c[p] \in LinePerms(config[f[p]])} :
            LET out == ResolvePanelsRanges(cfg,
                          [p \in PanelIds |-> [panels[f[p]] EXCEPT !.time_range = None]],
                          ctx, cache)
            IN  /\ out.pc = pc
                /\ \A p \in PanelIds : out.panels[p].time_range = panels[f[p]].time_range

\* Two panels whose lines have different windows, aligned to a shared window
\* that is the window of neither.
C16_Witness ==
    /\ Aligned
    /\ AlignKind = "SharedFull"
    /\ Len(config) = 2
    /\ WindowsOf(1) # {} /\ WindowsOf(2) # {}
    /\ panels[1].time_range = panels[2].time_range
    /\ panels[1].time_range # Some(OwnWindow(1))
    /\ panels[2].time_range # Some(OwnWindow(2))

\* One panel with two lines of different windows, none inside the other.
C16_WitnessLines ==
    /\ Aligned
    /\ Len(config) = 1
    /\ Cardinality(WindowsOf(1)) = 2
    /\ \A w \in WindowsOf(1) : Some(w) # panels[1].time_range

\* The windows of all the lines of the configuration.
AllWindows == LineRanges(all_lines(config))

\* populate_line_ranges has run and has read every cache file.
Populated ==
    /\ pc \notin {"done", "populated"}
    /\ populate_line_ranges(config, cache).error = None

\* C17: once every cache file is read, resolve_panels_ranges fails with
\* EmptyRangeError when no line has a window, whatever the alignment mode and
\* the time range of the context, and then no panel has a window; when a line
\* has a window, the total range is (min of the line starts, max of the line
\* ends).
C17_EmptyRangeError ==
    Populated =>
      IF AllWindows = {}
      THEN /\ pc = "range_error"
           /\ align.error = Some("EmptyRangeError")
           /\ \A p \in PanelIds : panels[p].time_range = None
      ELSE /\ align.error # Some("EmptyRangeError")
           /\ align.total = Some(FullOf(AllWindows))

\* No line has a window and a time range was requested.
C17_Witness ==
    /\ Populated
    /\ AllWindows = {}
    /\ pc = "range_error"
    /\ ctx.time_range # None
    /\ Len(all_lines(config)) = 2

\* Two lines with different windows, the total range the window of neither.
C17_WitnessTotal ==
    /\ Populated
    /\ Cardinality(AllWindows) = 2
    /\ \A w \in AllWindows : align.total # Some(w)

\* C18: after process_inputs and resolve_panels_ranges both succeeded, every
\* line with data points has a time window.
C18_NonEmptyLineHasWindow ==
    Aligned =>
      \A i \in 1..Len(all_lines(config)) :
         all_lines(config)[i].data_points_count > 0 => all_lines(config)[i].time_range # None

\* Both succeeded on a configuration with a line with data points and a line
\* without any.
C18_Witness ==
    /\ Aligned
    /\ \E i \in 1..Len(all_lines(config)) : all_lines(config)[i].data_points_count > 0
    /\ \E i \in 1..Len(all_lines(config)) :
          /\ all_lines(config)[i].data_points_count = 0
          /\ all_lines(config)[i].time_range = None

\* Every line of the log file f can be read.
AllReadable(f) == \A i \in 1..Len(files[f].lines) : files[f].lines[i].readable

\* C19: a run that met a line it could not read in a log file it opened does
\* not return Ok, and no cache file is written from a log file with such a
\* line (the lines before it are a prefix of the file).
C19_ReadErrorIsReturned ==
    /\ Done => \A i \in 1..Len(hist.opened) : AllReadable(hist.opened[i])
    /\ \A path \in hist.written : AllReadable(hist.seen[path].input)

-----------------------------------------------------------------------------
(* SpecRegex: LineProcessor::from_data_source on every small pattern       *)

\* Length of a field or pattern text.
MaxTokenLen == 6

\* Texts over a letter and the parentheses: plain names, regexes with 0 to 3
\* capture groups, and texts that are not a regex.
TokenTexts == SeqsUpTo({"d", "(", ")"}, MaxTokenLen) \ {<<>>}

RegexSources ==
    UNION {{new_plot_field(None, t), new_event_value(None, t, 2),
            new_event_count(None, t), new_event_delta(None, t)} : t \in TokenTexts}

InitRegex ==
    /\ pc = "new"
    /\ \E ds \in RegexSources : config = <<<<ResolvedLine_from_explicit_name(ds, SrcX)>>>>
    /\ proc = <<>>
    /\ fed = 0
    /\ outcome = "start"
    /\ hist = [error |-> None]
    /\ ctx = <<>>
    /\ grouped = {}
    /\ canonicals = <<>>
    /\ processors = <<>>
    /\ cursor = 0
    /\ files = <<>>
    /\ cache = <<>>
    /\ panels = <<>>
    /\ align = <<>>

\* LineProcessor::from_data_source: data_source.compile_regex()?, then the
\* new processor.
FromDataSource ==
    /\ pc = "new"
    /\ LET ds == config[1][1].data_source
           e  == compile_regex_error(ds)
       IN  IF e # None
           THEN /\ hist' = [error |-> e]
                /\ pc' = "error"
                /\ UNCHANGED proc
           ELSE /\ proc' = from_data_source(ds, Some("output.csv"), "DateTime", "input.log")
                /\ pc' = "compiled"
                /\ UNCHANGED hist
    /\ UNCHANGED <<fed, outcome, config, ctx, grouped, canonicals, processors, cursor,
                   files, cache>>
    /\ UNCHANGED rangeVars

NextRegex == FromDataSource

SpecRegex == InitRegex /\ [][NextRegex]_vars

\* The data source given to from_data_source.
Source == config[1][1].data_source

\* C20: compile_regex fails with RegexCapturesGroupsInvalidCount exactly when
\* the data source is a FieldValue whose field is a regex with more than two
\* capture groups; a field with one or two groups is the regex as it is; a
\* field with no group, or that is not a regex, gives the escaped
\* name=value(unit) template; an event pattern that is a regex is the regex as
\* it is, whatever its capture groups.
C20_CaptureGroupCount ==
    pc \in {"compiled", "error"} =>
      /\ (pc = "error" /\ Unwrap(hist.error).kind = "RegexCapturesGroupsInvalidCount")
            <=> /\ Source.kind = "FieldValue"
                /\ RegexNewOk(Source.field)
                /\ CaptureGroups(Source.field) > 2
      /\ (pc = "error" /\ Unwrap(hist.error).kind = "RegexCapturesGroupsInvalidCount")
            => hist.error = Some(RegexCapturesGroupsInvalidCount(Source.field))
      /\ (Source.kind = "FieldValue" /\ RegexNewOk(Source.field)
             /\ CaptureGroups(Source.field) \in 1..2)
            => pc = "compiled" /\ proc.regex = Source.field
      /\ (Source.kind = "FieldValue"
             /\ (~RegexNewOk(Source.field) \/ CaptureGroups(Source.field) = 0))
            => pc = "compiled" /\ proc.regex = FieldTemplate(Source.field)
      /\ (Source.kind # "FieldValue" /\ RegexNewOk(Source.pattern))
            => pc = "compiled" /\ proc.regex = Source.pattern

\* A field with three capture groups is refused.
C20_Witness ==
    /\ pc = "error"
    /\ Source.kind = "FieldValue"
    /\ CaptureGroups(Source.field) = 3
    /\ hist.error = Some(RegexCapturesGroupsInvalidCount(Source.field))

\* A field with two groups compiled as it is, a field that is not a regex
\* compiled to the template, an event pattern with three groups compiled.
C20_WitnessVerbatim ==
    pc = "compiled" /\ Source.kind = "FieldValue" /\ CaptureGroups(Source.field) = 2
       /\ proc.regex = Source.field

C20_WitnessTemplate ==
    pc = "compiled" /\ Source.kind = "FieldValue" /\ ~RegexNewOk(Source.field)
       /\ proc.regex = FieldTemplate(Source.field)

C20_WitnessEvent ==
    pc = "compiled" /\ Source.kind = "EventDelta" /\ CaptureGroups(Source.pattern) = 3

-----------------------------------------------------------------------------
(* SpecUnits: LineProcessor::process on one FieldValue match, for every    *)
(* small value text and every unit text                                    *)

\* Length of the text of capture group 1.
MaxValueLen == 3

\* Texts [\d\.]+ can capture.
ValueTexts == SeqsUpTo({"1", "2", "5", "."}, MaxValueLen) \ {<<>>}

Microseconds == <<"m", "i", "c", "r", "o", "s", "e", "c", "o", "n", "d", "s">>

\* Texts (\w+)? can capture: the units, the micro sign before s, the text of
\* the literal of the source, another word; None when the group is absent.
UnitTexts ==
    {<<"s">>, <<"m", "s">>, <<"u", "s">>, <<"n", "s">>, Microseconds,
     <<MicroSign, "s">>, <<ACircumflex, MicroSign, "s">>, <<"h">>}

InitUnits ==
    /\ pc = "matched"
    /\ proc = from_data_source(new_plot_field(None, TokD), Some("output.csv"),
                               "DateTime", "input.log")
    /\ \E v \in ValueTexts, u \in {None} \cup {Some(t) : t \in UnitTexts} :
          hist = [cap1 |-> Some(v), cap2 |-> u, timestamp |-> ExtractedDateTime(0)]
    /\ fed = 0
    /\ outcome = "start"
    /\ config = <<>>
    /\ ctx = <<>>
    /\ grouped = {}
    /\ canonicals = <<>>
    /\ processors = <<>>
    /\ cursor = 0
    /\ files = <<>>
    /\ cache = <<>>
    /\ panels = <<>>
    /\ align = <<>>

\* processor.process(captures, timestamp) on the captures of the match.
ProcessMatch ==
    /\ pc = "matched"
    /\ proc' = process(proc, hist, hist.timestamp)
    /\ pc' = "processed"
    /\ fed' = fed + 1
    /\ UNCHANGED <<outcome, config, ctx, grouped, canonicals, processors, cursor,
                   files, cache, hist>>
    /\ UNCHANGED rangeVars

NextUnits == ProcessMatch

SpecUnits == InitUnits /\ [][NextUnits]_vars

\* The units of a microsecond.
MicrosecondUnits == {<<"u", "s">>, <<MicroSign, "s">>, Microseconds}

\* The value in milliseconds of v with the unit capture u.
InMilliseconds(v, u) ==
    IF u = Some(<<"s">>) THEN FMul(v, 1000)
    ELSE IF u = Some(<<"m", "s">>) THEN v
    ELSE IF u # None /\ Unwrap(u) \in MicrosecondUnits THEN FDiv(v, 1000)
    ELSE IF u = Some(<<"n", "s">>) THEN FDiv(v, 1000000)
    ELSE v

\* C21: the record of a FieldValue match with numeric capture v and unit
\* capture u has the value v * 1000 for s, v for ms, v / 1000 for us, the
\* micro sign with s and microseconds, v / 1000000 for ns, and v for an
\* absent or unrecognized unit.
C21_UnitTable ==
    (pc = "processed" /\ ParseF64(Unwrap(hist.cap1)) # None) =>
       /\ Len(proc.records) = 1
       /\ proc.records[1].value = InMilliseconds(Unwrap(ParseF64(Unwrap(hist.cap1))), hist.cap2)

-----------------------------------------------------------------------------
(* More claims about one LineProcessor (SpecProc)                          *)

\* C22: a line without the guard text leaves the LineProcessor as it was
\* (its failure counter too: no timestamp is extracted from it); a
\* guard-passing line whose timestamp parses and whose remainder the regex
\* does not match changes none of count, last timestamp, records and failure
\* counter.
C22_UnmatchedLineChangesNothing ==
    [][/\ outcome' = "skipped" => proc' = proc
       /\ outcome' = "nomatch" =>
             /\ proc'.state = proc.state
             /\ proc'.records = proc.records
             /\ proc'.timestamp_extraction_failure_count =
                   proc.timestamp_extraction_failure_count]_vars

\* A processor with records and timestamp failures was given a line without
\* its guard.
C22_Witness ==
    /\ outcome = "skipped"
    /\ Len(proc.records) > 0
    /\ proc.timestamp_extraction_failure_count > 0

\* A processor with records and timestamp failures was given a guard-passing
\* line its regex does not match.
C22_WitnessNoMatch ==
    /\ outcome = "nomatch"
    /\ Len(proc.records) > 0
    /\ proc.timestamp_extraction_failure_count > 0

\* The scan of a field-value processor: SpecProc from the processor that
\* parses a captured value, with a date-time timestamp format.
InitFieldValue ==
    /\ InitProc
    /\ proc.data_source.kind = "FieldValue"
    /\ proc.timestamp_format = "DateTime"

SpecFieldValue == InitFieldValue /\ [][NextProc]_vars

\* The capture texts that value.parse::<f64>() rejects.
BadCaps == {c \in Cap1Options : ParseF64(Unwrap(c)) = None}

\* A line the processor p matches with a value capture that is not a number.
BadValue(p, line) ==
    /\ p.data_source.kind = "FieldValue"
    /\ line.cap1 \in BadCaps
    /\ try_match(p, line).captured # None

\* C23: on a line whose captured value is not a number the scan step of a
\* FieldValue processor returns no error and leaves the records as they
\* were; the state after such a step is not an error state, so the scan goes
\* on with the next line.
C23_BadValueDropsRecord ==
    /\ \A line \in ProcLines(proc) :
          BadValue(proc, line) =>
             LET fed_line == feed(proc, line)
             IN  /\ ~fed_line.err
                 /\ fed_line.error = None
                 /\ fed_line.proc.records = proc.records
    /\ outcome = "dropped" => hist.error = None

\* A processor with a record dropped a line with a value that is not a number.
C23_Witness ==
    /\ outcome = "dropped"
    /\ Len(proc.records) > 0

\* A record was made after a line was dropped.
C23_WitnessContinues ==
    /\ outcome = "recorded"
    /\ proc.state.count > Len(proc.records)

-----------------------------------------------------------------------------
(* More claims about process_inputs (SpecRun)                              *)

\* The log file opened last.
Scanned == hist.opened[Len(hist.opened)]

\* C24: at the end of a log file a processor without records writes its
\* cache file with the header only; a run ends with an error only when
\* try_match returned one on the line being read; in a run that returned Ok
\* every line whose cache file was written without rows has data-point
\* count 0.
C24_NoMatchWritesHeaderOnly ==
    /\ [][(pc = "read" /\ pc' = "scan") =>
             \A path \in DOMAIN processors[cursor.file] :
                processors[cursor.file][path].records = <<>>
                   => (path \in DOMAIN cache' /\ cache'[path] = <<>>)]_vars
    /\ [](pc = "error" =>
            /\ hist.opened # <<>>
            /\ Scanned \in DOMAIN processors
            /\ \E path \in DOMAIN processors[Scanned] :
                  \E i \in 1..Len(files[Scanned].lines) :
                     feed(processors[Scanned][path], files[Scanned].lines[i]).err)
    /\ [](Done =>
            \A i \in 1..Len(all_lines(config)) :
               LET path == expect_shared_csv_filename(all_lines(config)[i])
               IN  (path \in hist.written /\ cache[path] = <<>>)
                      => all_lines(config)[i].data_points_count = 0)

\* A run returned Ok after a processor went through a log file with lines
\* and matched none of them.
C24_Witness ==
    /\ Done
    /\ \E i \in 1..Len(all_lines(config)) :
          LET line == all_lines(config)[i]
              path == expect_shared_csv_filename(line)
          IN  /\ path \in hist.written
              /\ cache[path] = <<>>
              /\ line.data_points_count = 0
              /\ Len(hist.seen[path].lines) > 0

-----------------------------------------------------------------------------
(* SpecRoundTrip: a LineProcessor scans some lines and writes its cache    *)
(* file; populate_line_ranges reads the file back                          *)

\* Lines scanned before the file is written.
MaxRecords == 3

\* The scan loop body, before the file is written.
ScanBeforeWrite ==
    /\ pc = "idle"
    /\ fed < MaxRecords
    /\ ScanLine

\* processor.write_csv() to the output path of the processor.
WriteCsv ==
    /\ pc = "idle"
    /\ outcome # "error"
    /\ cache' = MapInsert(cache, Unwrap(proc.output_path), write_csv(proc))
    /\ pc' = "written"
    /\ UNCHANGED <<config, ctx, grouped, canonicals, processors, cursor, files, hist>>
    /\ UNCHANGED procVars
    /\ UNCHANGED rangeVars

\* A line bound to the file with set_shared_csv_filename, then
\* config.populate_line_ranges().
ReadRange ==
    /\ pc = "written"
    /\ LET line == set_shared_csv_filename(
                      ResolvedLine_from_explicit_name(proc.data_source, SrcX),
                      Unwrap(proc.output_path))
           r    == populate_line_ranges(<<<<line>>>>, cache)
       IN  /\ config' = r.cfg
           /\ pc' = IF r.error # None THEN "range_error" ELSE "populated"
    /\ UNCHANGED <<ctx, grouped, canonicals, processors, cursor, files, cache, hist>>
    /\ UNCHANGED procVars
    /\ UNCHANGED rangeVars

NextRoundTrip == ScanBeforeWrite \/ WriteCsv \/ ReadRange

SpecRoundTrip == InitProc /\ [][NextRoundTrip]_vars

\* The timestamp of a record at millisecond precision, in microseconds since
\* the placeholder day; a time-only timestamp is on the placeholder day.
RecordMicros(rec) ==
    IF rec.ts.kind = "Time"
    THEN (PlaceholderDay * MsPerDay + (rec.ts.t % DayTicks) \div TicksPerMs) * MicrosPerMs
    ELSE (rec.ts.t \div TicksPerMs) * MicrosPerMs

C25_WitnessTime ==
    /\ pc = "populated"
    /\ proc.timestamp_format = "Time"
    /\ Len(proc.records) = 2
    /\ proc.records[1].ts.t > proc.records[2].ts.t

C25_WitnessOneRecord ==
    /\ pc = "populated"
    /\ Len(proc.records) = 1
    /\ config[1][1].time_range = Some(<<RecordMicros(proc.records[1]),
                                        RecordMicros(proc.records[1])>>)

C25_WitnessNoRecord ==
    /\ pc = "populated"
    /\ fed > 0
    /\ proc.records = <<>>
    /\ config[1][1].time_range = None

-----------------------------------------------------------------------------
(* SpecNames: propagate_shared_csv_files on two lines of one log file,     *)
(* with guards and tokens that hold the separators of the file name        *)

TokGroup == <<"(", "d", ")">>
\* The guard, the separator and TokGroup.
TokGuardGroup == GuardG \o <<"_", "_">> \o TokGroup
\* The prefix of an EventCount file and TokGroup.
TokCountGroup == <<"c", "o", "u", "n", "t", "_">> \o TokGroup

NameLines ==
    {ResolvedLine_from_explicit_name(ds, SrcX) :
        ds \in {new_plot_field(None, TokD),
                new_plot_field(Some(GuardG), TokGroup),
                new_plot_field(None, TokGroup),
                new_plot_field(None, TokGuardGroup),
                new_plot_field(None, TokCountGroup),
                new_event_value(None, TokGroup, 1),
                new_event_value(None, TokGroup, 2),
                new_event_value(Some(GuardG), TokGroup, 1),
                new_event_count(None, TokGroup),
                new_event_delta(None, TokGroup)}}

InitNames ==
    /\ pc = "start"
    /\ \E ls \in [1..2 -> NameLines] : config \in Layouts(ls)
    /\ \E dir \in {None, Some(CacheRoot)} :
          ctx = [force_csv_regen |-> FALSE, cache_dir |-> dir,
                 timestamp_format |-> "DateTime"]
    /\ files = (PathStr(SrcX) :> EmptyFile)
    /\ grouped = {}
    /\ canonicals = EmptyMap
    /\ processors = EmptyMap
    /\ cursor = 0
    /\ cache = EmptyMap
    /\ hist = <<>>
    /\ panels = NewPanels(config)
    /\ align = NoAlign
    /\ proc = <<>>
    /\ fed = 0
    /\ outcome = "start"

NextNames == GroupLines \/ ResolveGroup

SpecNames == InitNames /\ [][NextNames]_vars

\* C26: after the resolver has run, two lines of one source file with the
\* same file name from get_csv_filename have the same guard, the same kind
\* of DataSource, the same effective regex pattern and, when they are
\* EventValue lines, the same yvalue.
C26_FilenameUniquePerSignal ==
    Resolved =>
      \A a, b \in Positions :
         LET la == LineAt(config, a)
             lb == LineAt(config, b)
         IN  (la.source = lb.source
                /\ get_csv_filename(files, la) = get_csv_filename(files, lb))
             => /\ la.data_source.guard = lb.data_source.guard
                /\ la.data_source.kind = lb.data_source.kind
                /\ regex_pattern(la.data_source) = regex_pattern(lb.data_source)
                /\ la.data_source.kind = "EventValue"
                      => la.data_source.yvalue = lb.data_source.yvalue

-----------------------------------------------------------------------------
(* More claims about range resolution (SpecRange)                          *)

\* C27: resolve_panels_ranges_inner does not reach its panic: with SharedFull
\* alignment and a panel that has a window it returns, also when the
\* earliest start is the latest end.
C27_SharedFullReturns == pc # "panic"

\* C28: every window of a line has start <= end, and so has every window of
\* a panel unless the alignment is Fixed.
C28_WindowsAreOrdered ==
    /\ \A w \in AllWindows : w[1] <= w[2]
    /\ \A p \in PanelIds :
          (panels[p].time_range # None /\ align.mode # None /\ AlignKind # "Fixed")
             => Unwrap(panels[p].time_range)[1] <= Unwrap(panels[p].time_range)[2]

\* The day of a date-time given in microseconds, in days from 2025-01-01.
DayOf(micros) == micros \div (MsPerDay * MicrosPerMs)

\* C30: with a time-only timestamp format and an absolute time range, the
\* Fixed window and the windows of the lines read back from the cache files
\* lie on the same day, the placeholder date of the cache rows.
C30_FixedWindowOnPlaceholderDay ==
    (ctx.timestamp_format = "Time" /\ align.mode # None /\ AlignKind = "Fixed") =>
       /\ \A w \in AllWindows : DayOf(w[1]) = PlaceholderDay /\ DayOf(w[2]) = PlaceholderDay
       /\ DayOf(Unwrap(align.mode).start) = PlaceholderDay
       /\ DayOf(Unwrap(align.mode).end) = PlaceholderDay

-----------------------------------------------------------------------------
(* SpecAbort: process_inputs on a log file with lines whose timestamp      *)
(* does not parse, over a cache directory that is empty or holds files     *)

\* Lines of the log file a/x.log.
MaxAbortLines == 5

\* "?? d=2.5": a line whose timestamp prefix does not parse.
LineNoTs ==
    [contains |-> {}, ts |-> None, matches |-> {},
     cap1 |-> None, cap2 |-> None, readable |-> TRUE]

\* One panel: two processors on a/x.log, or one on a/x.log and one on a/y.log.
AbortConfigs ==
    {<<<<ResolvedLine_from_explicit_name(new_plot_field(None, TokD), SrcX),
         ResolvedLine_from_explicit_name(new_event_count(None, TokD), SrcX)>>>>,
     <<<<ResolvedLine_from_explicit_name(new_plot_field(None, TokD), SrcX),
         ResolvedLine_from_explicit_name(new_event_count(None, TokD), SrcY)>>>>,
     <<<<ResolvedLine_from_explicit_name(new_event_count(None, TokD), SrcY),
         ResolvedLine_from_explicit_name(new_event_count(None, TokD), SrcX)>>>>}

\* A cache file left by an earlier run.
StaleRows == <<RowAt(0)>>

InitAbort ==
    /\ pc = "start"
    /\ config \in AbortConfigs
    /\ \E force \in BOOLEAN :
          ctx = [force_csv_regen |-> force, cache_dir |-> None,
                 timestamp_format |-> "DateTime",
                 panel_alignment_mode |-> None, time_range |-> None]
    /\ \E content \in [1..MaxAbortLines -> {LineField, LineNoTs}] :
          files = (PathStr(SrcX) :> [mtime |-> 0, lines |-> content])
                  @@ (PathStr(SrcY) :> [mtime |-> 0, lines |-> <<LineField>>])
    /\ \/ cache = EmptyMap
       \/ cache = [path \in {Unwrap(get_cache_dir(ctx, files, config[1][l].source))
                               \o "/" \o get_csv_filename(files, config[1][l]) :
                                l \in 1..Len(config[1])} |-> StaleRows]
    /\ grouped = {}
    /\ canonicals = EmptyMap
    /\ processors = EmptyMap
    /\ cursor = 0
    /\ hist = NewHist("first", <<>>, FALSE)
    /\ panels = NewPanels(config)
    /\ align = NoAlign
    /\ proc = <<>>
    /\ fed = 0
    /\ outcome = "start"

NextAbort ==
    \/ GroupLines
    \/ ResolveGroup
    \/ VisitLine
    \/ OpenFile
    \/ ReadLine
    \/ WriteFiles
    \/ ResolveDataPoints

SpecAbort == InitAbort /\ [][NextAbort]_vars

C29_WitnessRecords ==
    /\ pc = "error"
    /\ \E path \in DOMAIN processors[Scanned] :
          Len(processors[Scanned][path].records) > 0

====
